---- MODULE Spec2Model ----
(***************************************************************************)
(* Model of src/Here/finalapp.py: the batch scraper scrape_hotels with its *)
(* per-property coroutine scrape_hostel and the availability query         *)
(* scrape_prices.                                                          *)
(*                                                                         *)
(* Python dicts are functions from key strings to values; a key that the   *)
(* dict lacks is outside DOMAIN.  Python lists are sequences.  Strings the *)
(* code takes apart (names, URLs) are sequences of characters, so the      *)
(* empty string is << >>.  Dates are day numbers counted from 2025-01-01.  *)
(* Each coroutine runs atomically from one await to the next; the remote   *)
(* site's answer to a request is the input of the step that resumes it.    *)
(***************************************************************************)
EXTENDS Integers, Sequences, FiniteSets, TLC

VARIABLES hostels, start_date, end_date, pc, hotel_info, tokens,
          sent, received, ret, finished, hostels_data, batch,
          session, results, error_hostels,
          list_objects, editable_hostels, editing_hostel, editing_index, clicked,
          round_impl

(* the state of the hostel-list editor *)
editor_vars == <<list_objects, editable_hostels, editing_hostel, editing_index,
                 clicked>>

vars == <<hostels, start_date, end_date, pc, hotel_info, tokens,
          sent, received, ret, finished, hostels_data, batch,
          session, results, error_hostels, editor_vars, round_impl>>

(***************************************************************************)
(* Bounds of the model.                                                    *)
(***************************************************************************)
NumHostels == 2
MaxStart == 1
MaxSpan == 32
MaxBack == 2

(***************************************************************************)
(* Python helpers.                                                         *)
(***************************************************************************)
NoDate == -1

Get(d, k, default) == IF k \in DOMAIN d THEN d[k] ELSE default

Put(d, k, v) == [x \in (DOMAIN d) \cup {k} |-> IF x = k THEN v ELSE d[x]]

EmptyDict == [x \in {} |-> 0]

StrfDate(d) ==
    IF d < 31 THEN <<2025, 1, d + 1>>
    ELSE IF d < 59 THEN <<2025, 2, d - 30>>
    ELSE <<2025, 3, d - 58>>

(***************************************************************************)
(* Literals of the source.                                                 *)
(***************************************************************************)
(* A text the code takes apart or puts together (a URL, a name) is the     *)
(* sequence of its characters.  A character is the string of length 1 that *)
(* holds it, or, where no string can be written that holds it (the grave   *)
(* accent, a character beyond Latin-1), "U+" and its code point, as in     *)
(* "U+0060".  The texts given to the program are of printable Latin-1      *)
(* characters; title() makes two characters beyond Latin-1 out of them,    *)
(* "U+0178" and "U+039C".  Chars(s) is the text a string s holds.           *)
Chars(s) == [i \in 1..Len(s) |-> SubSeq(s, i, i)]

UnknownHotel == Chars("Unknown Hotel")

UnknownType == "Unknown Type"

(* the letters of Latin-1 whose other case is a letter of Latin-1, each    *)
(* lower-case letter at the position of its upper-case letter              *)
LowerCase == "abcdefghijklmnopqrstuvwxyzàáâãäåæçèéêëìíîïðñòóôõöøùúûüýþ"

UpperCase == "ABCDEFGHIJKLMNOPQRSTUVWXYZÀÁÂÃÄÅÆÇÈÉÊËÌÍÎÏÐÑÒÓÔÕÖØÙÚÛÜÝÞ"

(* the position of character c in the string letters, 0 if it is not there *)
RECURSIVE IndexIn(_, _, _)
IndexIn(c, letters, k) ==
    IF k > Len(letters) THEN 0
    ELSE IF SubSeq(letters, k, k) = c THEN k
    ELSE IndexIn(c, letters, k + 1)

(* str.upper: the upper-case letter of each lower-case letter *)
upper ==
    [c \in {SubSeq(LowerCase, i, i) : i \in 1..Len(LowerCase)} |->
        SubSeq(UpperCase, IndexIn(c, LowerCase, 1), IndexIn(c, LowerCase, 1))]

(* str.lower: the lower-case letter of each upper-case letter *)
lower ==
    [c \in {SubSeq(UpperCase, i, i) : i \in 1..Len(UpperCase)} |->
        SubSeq(LowerCase, IndexIn(c, UpperCase, 1), IndexIn(c, UpperCase, 1))]

(* str.title() of the characters of w from position k on; after_cased: the *)
(* character before position k is a cased one.  After a cased character a  *)
(* character is made lower case, otherwise title case: the upper-case      *)
(* letter, "Ss" for "ß", U+0178 for "ÿ", U+039C for "µ".  The cased        *)
(* characters of Latin-1 are the letters of LowerCase and UpperCase and    *)
(* "ß", "ÿ", "µ", "ª", "º".                                                 *)
RECURSIVE TitleFrom(_, _, _)
TitleFrom(w, k, after_cased) ==
    IF k > Len(w) THEN << >>
    ELSE (IF after_cased
          THEN (IF w[k] \in DOMAIN lower THEN <<lower[w[k]]>> ELSE <<w[k]>>)
          ELSE IF w[k] \in DOMAIN upper THEN <<upper[w[k]]>>
          ELSE IF w[k] = "ß" THEN <<"S", "s">>
          ELSE IF w[k] = "ÿ" THEN <<"U+0178">>
          ELSE IF w[k] = "µ" THEN <<"U+039C">>
          ELSE <<w[k]>>)
            \o TitleFrom(w, k + 1,
                         w[k] \in DOMAIN lower \cup DOMAIN upper \cup {"ß", "ÿ", "µ", "ª", "º"})

(* \w of a pattern on str: the character c is a letter, a digit (²,  ³, ¹, *)
(* ¼, ½, ¾ count as digits) or the underscore                              *)
IsWord(c) ==
    c \in DOMAIN lower \cup DOMAIN upper
            \cup {"0", "1", "2", "3", "4", "5", "6", "7", "8", "9", "_",
                  "ß", "ÿ", "µ", "ª", "º", "²", "³", "¹", "¼", "½", "¾"}

(* the position after the run of word characters of s that starts at k *)
RECURSIVE WordEnd(_, _)
WordEnd(s, k) ==
    IF k > Len(s) \/ ~IsWord(s[k]) THEN k ELSE WordEnd(s, k + 1)

(* the characters of s from position k up to, not including, the first "." *)
RECURSIVE UpToDot(_, _)
UpToDot(s, k) ==
    IF k > Len(s) \/ s[k] = "." THEN << >>
    ELSE <<s[k]>> \o UpToDot(s, k + 1)

(* re.search(r'hotel/\w+/([^.]+)', s) for a match that starts at k or      *)
(* later: group 1 of the leftmost match, or << >> when nothing matches     *)
(* (group 1 is never empty when it matches).  \w+ takes the whole run of   *)
(* word characters, which a "/" has to follow; [^.]+ takes all up to the   *)
(* next "."                                                                *)
RECURSIVE UrlMatchFrom(_, _)
UrlMatchFrom(s, k) ==
    IF k + 8 > Len(s) THEN << >>
    ELSE IF /\ SubSeq(s, k, k + 5) = <<"h", "o", "t", "e", "l", "/">>
            /\ WordEnd(s, k + 6) > k + 6
            /\ WordEnd(s, k + 6) < Len(s)
            /\ s[WordEnd(s, k + 6)] = "/"
            /\ UpToDot(s, WordEnd(s, k + 6) + 1) # << >>
         THEN UpToDot(s, WordEnd(s, k + 6) + 1)
         ELSE UrlMatchFrom(s, k + 1)

UrlMatch(s) == UrlMatchFrom(s, 1)

(* ' '.join(slug.split('-')).title() *)
SlugToName(slug) ==
    TitleFrom([k \in 1..Len(slug) |-> IF slug[k] = "-" THEN " " ELSE slug[k]], 1, FALSE)

(* parse_hotel(html): the html document is the dict of the script markers  *)
(* it embeds (hotelName, hotelCountry, b_csrf_token) and, under "href",    *)
(* the text of a link it contains                                          *)
parse_hotel(html) ==
    IF "hotelName" \in DOMAIN html
    THEN [name |-> html["hotelName"]]
    ELSE IF UrlMatch(Get(html, "href", << >>)) # << >>
         THEN [name |-> SlugToName(UrlMatch(Get(html, "href", << >>)))]
         ELSE [name |-> UnknownHotel]

(***************************************************************************)
(* scrape_prices: the day count, the request, and the result of a response *)
(***************************************************************************)
(* the day count without the cap of lines 370-372 *)
price_n_days_uncapped(start, end) ==
    IF end # NoDate THEN (end - start) + 1 ELSE 1

price_n_days(start, end) ==
    LET n == IF end # NoDate THEN (end - start) + 1 ELSE 1
    IN  IF n > 30 THEN 30 ELSE n

PostRequest(hotel_name, hotel_country, csrf_token, num_adults, start, end) ==
    [method |-> "POST",
     pagename |-> hotel_name,
     countryCode |-> hotel_country,
     csrf |-> csrf_token,
     startDate |-> StrfDate(start),
     amountOfDays |-> price_n_days(start, end),
     nbAdults |-> num_adults,
     nbRooms |-> 1]

(* A JSON body as json.loads gives it: an object is the dict of its        *)
(* members, null is JsonNull, and the array under "days" is the record     *)
(* [array |-> the sequence of its elements]                                *)
JsonNull == [null |-> TRUE]

IsJsonNull(v) == "null" \in DOMAIN v

(* lines 415-429 on the parsed body: the tests "data" not in price_data    *)
(* (418), "availabilityCalendar" not in price_data["data"] (418), "days"   *)
(* not in ...["availabilityCalendar"] (422) and len(days_data) (427) each  *)
(* raise TypeError on None                                                 *)
DaysOfBody(price_data) ==
    IF IsJsonNull(price_data) THEN [ok |-> FALSE, exc |-> "TypeError"]
    ELSE IF "data" \notin DOMAIN price_data THEN [ok |-> TRUE, value |-> << >>]
    ELSE IF IsJsonNull(price_data["data"]) THEN [ok |-> FALSE, exc |-> "TypeError"]
    ELSE IF "availabilityCalendar" \notin DOMAIN price_data["data"]
         THEN [ok |-> TRUE, value |-> << >>]
    ELSE IF IsJsonNull(price_data["data"]["availabilityCalendar"])
         THEN [ok |-> FALSE, exc |-> "TypeError"]
    ELSE IF "days" \notin DOMAIN price_data["data"]["availabilityCalendar"]
         THEN [ok |-> TRUE, value |-> << >>]
    ELSE IF IsJsonNull(price_data["data"]["availabilityCalendar"]["days"])
         THEN [ok |-> FALSE, exc |-> "TypeError"]
    ELSE [ok |-> TRUE,
          value |-> price_data["data"]["availabilityCalendar"]["days"].array]

(* what scrape_prices does with the awaited outcome r of session.post:     *)
(* [ok |-> TRUE, value |-> list] is a return, [ok |-> FALSE, exc |-> e] a   *)
(* raise                                                                   *)
ScrapePricesResult(r) ==
    IF r.kind = "raise" THEN [ok |-> FALSE, exc |-> r.exc]
    ELSE IF ~r.json THEN [ok |-> FALSE, exc |-> "JSONDecodeError"]
    ELSE DaysOfBody(r.content)

(***************************************************************************)
(* Numbers.  A float is an IEEE 754 double, as numpy.float64 and Python's  *)
(* float are: the record [sign, man, exp] of value sign * man * 2^exp,     *)
(* where sign is 1 or -1 and man is a whole number of exactly 53 bits, or  *)
(* 0 with exp 0 for the two zeros; NaN is a record of its own.  Every      *)
(* operation gives the double nearest the exact result, ties to the even   *)
(* mantissa.  Subnormal and infinite results are outside the model: no     *)
(* price comes near 2^-1022 or 2^1024.                                     *)
(*                                                                         *)
(* A mantissa and the exact intermediate results are whole numbers of any  *)
(* size: the sequence of the digits base 2^15, least digit first, without  *)
(* a leading zero digit; << >> is 0.                                       *)
(***************************************************************************)
Base == 32768

(* X without its leading zero digits *)
RECURSIVE Trim(_)
Trim(X) ==
    IF X = << >> \/ X[Len(X)] # 0 THEN X ELSE Trim(SubSeq(X, 1, Len(X) - 1))

(* the whole number n, 0 <= n < 2^31 *)
BFromInt(n) == Trim(<<n % Base, (n \div Base) % Base, n \div (Base * Base)>>)

Zeros(n) == [i \in 1..n |-> 0]

Digit(X, i) == IF i <= Len(X) THEN X[i] ELSE 0

(* the number of bits of X: those of its leading digit and 15 for each     *)
(* other digit                                                             *)
BitLen(X) ==
    IF X = << >> THEN 0
    ELSE 15 * (Len(X) - 1)
         + (CHOOSE k \in 1..15 :
                2^(k - 1) <= X[Len(X)] /\ (k = 15 \/ X[Len(X)] < 2^k))

IsOdd(X) == X # << >> /\ X[1] % 2 = 1

(* X * 2^k: k \div 15 zero digits below X * 2^(k % 15) *)
Shl(X, k) ==
    IF X = << >> THEN << >>
    ELSE Zeros(k \div 15)
         \o Trim([i \in 1..Len(X) + 1 |->
                    ((Digit(X, i) * 2^(k % 15)) % Base)
                  + (IF i > 1 THEN (X[i - 1] * 2^(k % 15)) \div Base ELSE 0)])

(* X \div 2^k: X without its k \div 15 low digits, \div 2^(k % 15) *)
Shr(X, k) ==
    Trim([i \in 1..Len(X) - (k \div 15) |->
            (X[i + (k \div 15)] \div 2^(k % 15))
          + (Digit(X, i + (k \div 15) + 1) % 2^(k % 15)) * (Base \div 2^(k % 15))])

(* the k low bits of X are all 0 *)
LowBitsZero(X, k) ==
    \A i \in 1..Len(X) :
        /\ i <= k \div 15 => X[i] = 0
        /\ i = (k \div 15) + 1 => X[i] % 2^(k % 15) = 0

(* the digits i, i + 1, ... of X + Y, given the carry into digit i;        *)
(* X + Y is BAdd(X, Y, 1, 0)                                               *)
RECURSIVE BAdd(_, _, _, _)
BAdd(X, Y, i, carry) ==
    IF i > Len(X) /\ i > Len(Y) THEN (IF carry = 0 THEN << >> ELSE <<carry>>)
    ELSE <<(Digit(X, i) + Digit(Y, i) + carry) % Base>>
         \o BAdd(X, Y, i + 1, (Digit(X, i) + Digit(Y, i) + carry) \div Base)

(* the digits i, i + 1, ... of X - Y, given the borrow from digit i, for   *)
(* X >= Y; X - Y is Trim(BSub(X, Y, 1, 0))                                 *)
RECURSIVE BSub(_, _, _, _)
BSub(X, Y, i, borrow) ==
    IF i > Len(X) THEN << >>
    ELSE <<(X[i] - Digit(Y, i) - borrow + Base) % Base>>
         \o BSub(X, Y, i + 1, IF X[i] - Digit(Y, i) - borrow < 0 THEN 1 ELSE 0)

(* X < Y *)
BLess(X, Y) ==
    \/ Len(X) < Len(Y)
    \/ /\ Len(X) = Len(Y)
       /\ \E i \in 1..Len(X) : X[i] < Y[i] /\ \A j \in (i + 1)..Len(X) : X[j] = Y[j]

(* the digits i, i + 1, ... of X * y for a digit y > 0, given the carry    *)
(* into digit i; X * y is BMulSmall(X, y, 1, 0)                            *)
RECURSIVE BMulSmall(_, _, _, _)
BMulSmall(X, y, i, carry) ==
    IF i > Len(X) THEN (IF carry = 0 THEN << >> ELSE <<carry>>)
    ELSE <<(X[i] * y + carry) % Base>>
         \o BMulSmall(X, y, i + 1, (X[i] * y + carry) \div Base)

(* X times the number of the digits j, j + 1, ... of Y, for X > 0 and      *)
(* Y > 0; X * Y is BMul(X, Y, 1)                                           *)
RECURSIVE BMul(_, _, _)
BMul(X, Y, j) ==
    IF j = Len(Y) THEN BMulSmall(X, Y[j], 1, 0)
    ELSE BAdd(IF Y[j] = 0 THEN << >> ELSE BMulSmall(X, Y[j], 1, 0),
              <<0>> \o BMul(X, Y, j + 1), 1, 0)

(* the digits 1..i of X \div d for 0 < d < 2^16, given the remainder of    *)
(* the digits above i; X \div d is Trim(BDivSmall(X, d, Len(X), 0))        *)
RECURSIVE BDivSmall(_, _, _, _)
BDivSmall(X, d, i, rem) ==
    IF i = 0 THEN << >>
    ELSE BDivSmall(X, d, i - 1, (rem * Base + X[i]) % d) \o <<(rem * Base + X[i]) \div d>>

(* X % d for 0 < d < 2^16, given the remainder of the digits above i;      *)
(* X % d is BModSmall(X, d, Len(X), 0)                                     *)
RECURSIVE BModSmall(_, _, _, _)
BModSmall(X, d, i, rem) ==
    IF i = 0 THEN rem ELSE BModSmall(X, d, i - 1, (rem * Base + X[i]) % d)

NaN == [nan |-> TRUE]

IsNaN(x) == DOMAIN x = {"nan"}

(* 0.0 and -0.0 *)
Zero(sign) == [sign |-> sign, man |-> << >>, exp |-> 0]

IsZero(x) == x.man = << >>

(* man * 2^exp, after the carry out of the rounding made man 2^53 *)
Renormal(sign, man, exp) ==
    IF BitLen(man) = 54 THEN [sign |-> sign, man |-> Shr(man, 1), exp |-> exp + 1]
    ELSE [sign |-> sign, man |-> man, exp |-> exp]

(* M without its drop low bits, rounded to nearest, ties to even *)
RoundedAt(sign, M, exp, inexact, drop) ==
    IF drop <= 0
    THEN [sign |-> sign, man |-> Shl(M, 0 - drop), exp |-> exp + drop]
    ELSE IF /\ IsOdd(Shr(M, drop - 1))
            /\ (inexact \/ ~LowBitsZero(M, drop - 1) \/ IsOdd(Shr(M, drop)))
    THEN Renormal(sign, BAdd(Shr(M, drop), <<1>>, 1, 0), exp + drop)
    ELSE [sign |-> sign, man |-> Shr(M, drop), exp |-> exp + drop]

(* the double nearest sign * (M + f) * 2^exp for a whole M, where f is 0,  *)
(* or, when inexact, some fraction 0 < f < 1 (M then has 55 bits or more)  *)
Rounded(sign, M, exp, inexact) ==
    IF M = << >> THEN Zero(sign) ELSE RoundedAt(sign, M, exp, inexact, BitLen(M) - 53)

(* x * y *)
FMul(x, y) ==
    IF IsNaN(x) \/ IsNaN(y) THEN NaN
    ELSE IF IsZero(x) \/ IsZero(y) THEN Zero(x.sign * y.sign)
    ELSE Rounded(x.sign * y.sign, BMul(x.man, y.man, 1), x.exp + y.exp, FALSE)

(* sx * X * 2^exp + sy * Y * 2^exp *)
AddAligned(sx, X, sy, Y, exp) ==
    IF sx = sy THEN Rounded(sx, BAdd(X, Y, 1, 0), exp, FALSE)
    ELSE IF X = Y THEN Zero(1)
    ELSE IF BLess(X, Y) THEN Rounded(sy, Trim(BSub(Y, X, 1, 0)), exp, FALSE)
    ELSE Rounded(sx, Trim(BSub(X, Y, 1, 0)), exp, FALSE)

(* x + y; an operand more than 64 binary places below the other one does   *)
(* not change it                                                           *)
FAdd(x, y) ==
    IF IsNaN(x) \/ IsNaN(y) THEN NaN
    ELSE IF IsZero(x) /\ IsZero(y) THEN Zero(IF x.sign = y.sign THEN x.sign ELSE 1)
    ELSE IF IsZero(x) THEN y
    ELSE IF IsZero(y) THEN x
    ELSE IF x.exp - y.exp > 64 THEN x
    ELSE IF y.exp - x.exp > 64 THEN y
    ELSE IF x.exp >= y.exp
    THEN AddAligned(x.sign, Shl(x.man, x.exp - y.exp), y.sign, y.man, y.exp)
    ELSE AddAligned(x.sign, x.man, y.sign, Shl(y.man, y.exp - x.exp), x.exp)

(* x - y: x + (-y) *)
FSub(x, y) == FAdd(x, IF IsNaN(y) THEN NaN ELSE [y EXCEPT !.sign = 0 - @])

(* |x| < |y| *)
MagLess(x, y) ==
    /\ ~IsZero(y)
    /\ \/ IsZero(x)
       \/ x.exp < y.exp
       \/ x.exp = y.exp /\ BLess(x.man, y.man)

(* x > y: False when either side is NaN *)
FGreater(x, y) ==
    /\ ~IsNaN(x)
    /\ ~IsNaN(y)
    /\ IF x.sign = 1
       THEN IF y.sign = 1 THEN MagLess(y, x) ELSE ~IsZero(x) \/ ~IsZero(y)
       ELSE y.sign = -1 /\ MagLess(x, y)

(* x / n for a whole number n, 0 < n < 2^16 *)
FDivSmall(x, n) ==
    IF IsNaN(x) THEN NaN
    ELSE IF IsZero(x) THEN x
    ELSE Rounded(x.sign, Trim(BDivSmall(Zeros(2) \o x.man, n, Len(x.man) + 2, 0)),
                 x.exp - 30, BModSmall(Zeros(2) \o x.man, n, Len(x.man) + 2, 0) # 0)

(* the double nearest sign * (N / d1) / d2 for a whole N > 0 and           *)
(* 0 < d1, d2 < 2^16: N * 2^90 is divided by d1, then by d2                *)
Quotient(sign, N, d1, d2) ==
    LET Q1 == Trim(BDivSmall(Zeros(6) \o N, d1, Len(N) + 6, 0))
    IN  Rounded(sign, Trim(BDivSmall(Q1, d2, Len(Q1), 0)), -90,
                \/ BModSmall(Zeros(6) \o N, d1, Len(N) + 6, 0) # 0
                \/ BModSmall(Q1, d2, Len(Q1), 0) # 0)

(* the float of the decimal n / d, as float() and a literal give it, for   *)
(* |n| < 2^31 and a d below 2^16 or a power of ten up to 10^8              *)
Float(n, d) ==
    IF n = 0 THEN Zero(1)
    ELSE IF d < 65536 THEN Quotient(IF n < 0 THEN -1 ELSE 1, BFromInt(IF n < 0 THEN 0 - n ELSE n), d, 1)
    ELSE Quotient(IF n < 0 THEN -1 ELSE 1, BFromInt(IF n < 0 THEN 0 - n ELSE n), 10000, d \div 10000)

(* the whole number nearest sign * M / 2^d, ties to the even one, for      *)
(* d > 0: M \div 2^d, and one more when the first bit dropped is 1 and     *)
(* either a lower bit is 1 or M \div 2^d is odd                            *)
WholeNearest(sign, M, d) ==
    IF IsOdd(Shr(M, d - 1)) /\ (~LowBitsZero(M, d - 1) \/ IsOdd(Shr(M, d)))
    THEN Rounded(sign, BAdd(Shr(M, d), <<1>>, 1, 0), 0, FALSE)
    ELSE Rounded(sign, Shr(M, d), 0, FALSE)

(* 100.0, the factor of two decimals *)
Hundred == Float(100, 1)

(* numpy.rint(x) *)
Rint(x) ==
    IF IsNaN(x) THEN NaN
    ELSE IF IsZero(x) \/ x.exp >= 0 THEN x
    ELSE WholeNearest(x.sign, x.man, 0 - x.exp)

(* round(x, 2) as numpy.float64.__round__ does it (numpy 1.19 and later):  *)
(* x * 100.0, rounded to the nearest whole number, ties to even, divided   *)
(* by 100.0; each of the three steps gives a double                        *)
NumpyRound2(x) == FDivSmall(Rint(FMul(x, Hundred)), 100)

(* round(x, 2) as float.__round__ does it, which a numpy.float64 inherits  *)
(* under an earlier numpy: the double nearest the decimal of two places    *)
(* that is nearest the exact value of x, ties to the even decimal; for     *)
(* |x| < 2^46                                                              *)
FloatRound2(x) ==
    IF IsNaN(x) THEN NaN
    ELSE IF IsZero(x) \/ x.exp >= 0 THEN x
    ELSE FDivSmall(WholeNearest(x.sign, BMulSmall(x.man, 100, 1, 0), 0 - x.exp), 100)

(* round(x, 2) of a numpy.float64, which is what min() and mean() of the   *)
(* price column return and what the products and differences of one with   *)
(* a Python float are                                                      *)
Round2(x) == IF round_impl = "numpy" THEN NumpyRound2(x) ELSE FloatRound2(x)

(***************************************************************************)
(* parse_hotel_prices: the price out of the formatted text, the date out   *)
(* of checkin.  A text is the sequence of its characters.                  *)
(***************************************************************************)
IsDigit(c) == c \in {"0", "1", "2", "3", "4", "5", "6", "7", "8", "9"}

(* the position of the first digit of text at or after k, 0 if none *)
RECURSIVE FirstDigit(_, _)
FirstDigit(text, k) ==
    IF k > Len(text) THEN 0
    ELSE IF IsDigit(text[k]) THEN k
    ELSE FirstDigit(text, k + 1)

(* the position after the run of digits of text that starts at k *)
RECURSIVE DigitsEnd(_, _)
DigitsEnd(text, k) ==
    IF k > Len(text) \/ ~IsDigit(text[k]) THEN k ELSE DigitsEnd(text, k + 1)

(* the number written by the digits text[a], ..., text[b - 1] *)
RECURSIVE DigitsValue(_, _, _)
DigitsValue(text, a, b) ==
    IF a >= b THEN 0
    ELSE DigitsValue(text, a, b - 1) * 10 + (IndexIn(text[b - 1], "0123456789", 1) - 1)

RECURSIVE Pow10(_)
Pow10(n) == IF n = 0 THEN 1 ELSE 10 * Pow10(n - 1)

(* line 245: str.extract of digits, optional point, digits, then          *)
(* astype(float): the leftmost run of digits, with the point and the       *)
(* digits that follow it, as the double nearest that decimal; NaN when the *)
(* text has no digit.  Texts of at most 9 digits, 8 of them decimals.      *)
ExtractPrice(text) ==
    LET a == FirstDigit(text, 1)
        b == DigitsEnd(text, a)
        c == IF b <= Len(text) /\ text[b] = "." THEN DigitsEnd(text, b + 1) ELSE b + 1
    IN  IF a = 0 THEN NaN
        ELSE Float(DigitsValue(text, a, b) * Pow10(c - (b + 1)) + DigitsValue(text, b + 1, c),
                   Pow10(c - (b + 1)))

(* line 249: pd.to_datetime of a 'YYYY-MM-DD' checkin, as a day number *)
ParseDate(ymd) ==
    IF ymd[2] = 1 THEN ymd[3] - 1
    ELSE IF ymd[2] = 2 THEN ymd[3] + 30
    ELSE ymd[3] + 58

(* lines 235-251: the rows of the DataFrame: the price and the date of     *)
(* each record (NaN, NaT where the record lacks the field)                 *)
parse_hotel_prices(price_data) ==
    [k \in 1..Len(price_data) |->
        [price |-> IF "avgPriceFormatted" \in DOMAIN price_data[k]
                   THEN ExtractPrice(price_data[k]["avgPriceFormatted"])
                   ELSE NaN,
         date |-> IF "checkin" \in DOMAIN price_data[k]
                  THEN ParseDate(price_data[k]["checkin"])
                  ELSE NoDate]]

(* the DataFrame has the column: some record has the field *)
HasColumn(price_data, field) ==
    \E k \in 1..Len(price_data) : field \in DOMAIN price_data[k]

(***************************************************************************)
(* process_hostel_data: the representative price of one adult count.       *)
(***************************************************************************)
(* line 444 *)
IsDateRange(selected_date, end) == end # NoDate /\ end # selected_date

(* 0.01, the price a valid row exceeds (lines 463, 572) *)
PriceFloor == Float(1, 100)

(* ValidRows with the test price > 0: a price of 0.01 is kept *)
ValidRowsPositive(df) ==
    LET valid(row) == FGreater(row.price, Zero(1))
    IN  SelectSeq(df, valid)

(* ValidRows that also drops the first row it would keep *)
ValidRowsButFirst(df) ==
    LET valid(row) == FGreater(row.price, PriceFloor)
    IN  IF SelectSeq(df, valid) = << >> THEN << >> ELSE Tail(SelectSeq(df, valid))

(* lines 463, 572: the rows with price > 0.01 *)
ValidRows(df) ==
    LET valid(row) == FGreater(row.price, PriceFloor)
    IN  SelectSeq(df, valid)

(* lines 480, 589: the rows of the selected date *)
RowsOfDate(df, selected_date) ==
    LET sameDay(row) == row.date = selected_date
    IN  SelectSeq(df, sameDay)

(* the lesser of two numbers *)
Lesser(a, b) == IF FGreater(a, b) THEN b ELSE a

(* the prices of the rows k, k + 1, ... added to sum one after the other,   *)
(* as numpy adds up fewer than 8 values: from 0.0, in the order of the     *)
(* rows                                                                    *)
RECURSIVE SumPrices(_, _, _)
SumPrices(df, k, sum) ==
    IF k > Len(df) THEN sum ELSE SumPrices(df, k + 1, FAdd(sum, df[k].price))

(* Series.mean() of the price column of a DataFrame with rows: the sum     *)
(* divided by the count                                                    *)
MeanPrice(df) == FDivSmall(SumPrices(df, 1, Zero(1)), Len(df))

(* Series.max() of the price column, taken where the code takes the min *)
RECURSIVE MaxPrice(_)
MaxPrice(df) ==
    IF Len(df) = 1 THEN df[1].price
    ELSE IF FGreater(df[1].price, MaxPrice(Tail(df))) THEN df[1].price
    ELSE MaxPrice(Tail(df))

(* Series.min() of the price column of a DataFrame with rows *)
RECURSIVE MinPrice(_)
MinPrice(df) ==
    IF Len(df) = 1 THEN df[1].price
    ELSE Lesser(df[1].price, MinPrice(Tail(df)))

(* pd.DataFrame(price_data).empty: no record has any field *)
EmptyFrame(price_data) == \A k \in 1..Len(price_data) : DOMAIN price_data[k] = {}

(* lines 483-488, 501: the least price among the rows of the selected date *)
MinOfDate(df_date_filtered) ==
    IF df_date_filtered = << >> THEN [status |-> "continue"]
    ELSE [status |-> "ok", method |-> "min", price |-> MinPrice(df_date_filtered)]

(* lines 474-503, 583-612, on the rows with a valid price *)
RepresentativeOf(price_data, filtered, selected_date, end) ==
    IF filtered = << >> THEN [status |-> "continue"]
    ELSE IF ~IsDateRange(selected_date, end)
    THEN IF ~HasColumn(price_data, "checkin") THEN [status |-> "raise"]
         ELSE MinOfDate(RowsOfDate(filtered, selected_date))
    ELSE [status |-> "ok", method |-> "mean",
          price |-> MeanPrice(filtered),
          available_days_count |-> Len(filtered),
          total_days_in_range |-> (end - selected_date) + 1]

(* lines 458-503, 567-612 for the price list under key of a scraped record.*)
(* status "skip": no list, nothing done; "raise": a KeyError leaves        *)
(* process_hostel_data; "continue": the continue of line 476, 485, 585 or  *)
(* 594 is taken; "ok": the price, its method and, for a range, the day     *)
(* counts of lines 493-494, 602-603                                        *)
Representative(hostel, key, selected_date, end) ==
    IF key \notin DOMAIN hostel \/ hostel[key] = << >> THEN [status |-> "skip"]
    ELSE IF EmptyFrame(hostel[key]) THEN [status |-> "skip"]
    ELSE IF ~HasColumn(hostel[key], "avgPriceFormatted") THEN [status |-> "raise"]
    ELSE RepresentativeOf(hostel[key], ValidRows(parse_hotel_prices(hostel[key])),
                          selected_date, end)

(***************************************************************************)
(* process_hostel_data: the fields derived from the representative price.  *)
(***************************************************************************)
(* 5.5, the tourist tax of one adult (lines 513, 621, 625) *)
Tasa == Float(55, 10)

(* 5.5 * 2, the tourist tax of two adults (lines 513, 517) *)
TasaOf2 == FMul(Tasa, Float(2, 1))

(* the factors 0.8, 1.2 and 0.08 of lines 509, 529, 514 *)
SharedFactor == Float(8, 10)

PrivateFactor == Float(12, 10)

InteresRate == Float(8, 100)

(* the result dict with the entries of more written over it *)
Update(result, more) ==
    [k \in DOMAIN result \cup DOMAIN more |->
        IF k \in DOMAIN more THEN more[k] ELSE result[k]]

(* SinTasa from the room price as it is reported, rounded to 2 decimals *)
SinTasaOfRounded(room, tasa) ==
    LET precio_sin_tasa == FSub(Round2(room), tasa)
        interes == FMul(precio_sin_tasa, InteresRate)
    IN  [precio_sin_tasa |-> precio_sin_tasa,
         interes |-> interes,
         final |-> FSub(precio_sin_tasa, interes)]

(* SinTasa with the tax left in the price *)
SinTasaTaxKept(room, tasa) ==
    LET interes == FMul(room, InteresRate)
    IN  [precio_sin_tasa |-> room, interes |-> interes, final |-> FSub(room, interes)]

(* SinTasa with the margin taken on the room price, tax included *)
SinTasaMarginOnRoom(room, tasa) ==
    LET precio_sin_tasa == FSub(room, tasa)
        interes == FMul(room, InteresRate)
    IN  [precio_sin_tasa |-> precio_sin_tasa,
         interes |-> interes,
         final |-> FSub(precio_sin_tasa, interes)]

(* lines 513-515: precio_sin_tasa, interes and precio_sin_tasa_final of a  *)
(* room price and a tax                                                    *)
SinTasa(room, tasa) ==
    LET precio_sin_tasa == FSub(room, tasa)
        interes == FMul(precio_sin_tasa, InteresRate)
    IN  [precio_sin_tasa |-> precio_sin_tasa,
         interes |-> interes,
         final |-> FSub(precio_sin_tasa, interes)]

(* hostel.get('type') *)
TypeGet(hostel) == Get(hostel, "type", "None")

IsPrivado(hostel) == TypeGet(hostel) = "Privado"

(* lines 526, 546 *)
IsCompartidoOrHibrido(hostel) == TypeGet(hostel) \in {"Compartido", "Híbrido", "Hibrido"}

(* SharedRoom2 without the factor: the scraped price whatever the type *)
SharedRoomAsScraped(hostel, price) == price

(* lines 508-509, 528-529, 548-549: the private and the shared room price  *)
(* of 2 adults                                                             *)
PrivateRoom2(hostel, price_2_adults) ==
    IF IsPrivado(hostel) THEN price_2_adults ELSE FMul(price_2_adults, PrivateFactor)

SharedRoom2(hostel, price_2_adults) ==
    IF IsPrivado(hostel) THEN FMul(price_2_adults, SharedFactor) ELSE price_2_adults

(* lines 505-564: the entries written for 2 adults *)
Fields2Adults(hostel, price_2_adults) ==
    IF ~(IsPrivado(hostel) \/ IsCompartidoOrHibrido(hostel)) THEN EmptyDict
    ELSE LET privado == SinTasa(PrivateRoom2(hostel, price_2_adults), TasaOf2)
             compartido == SinTasa(SharedRoom2(hostel, price_2_adults), TasaOf2)
         IN  ("Precio Hab Baño Privado 2 Adultos" :> Round2(PrivateRoom2(hostel, price_2_adults)))
          @@ ("Precio Hab Baño Compartido 2 Adultos" :> Round2(SharedRoom2(hostel, price_2_adults)))
          @@ (IF IsPrivado(hostel)
              THEN "Precio Hab Baño Compartido 2 Adultos (Calculado)" :> TRUE
              ELSE "Precio Hab Baño Privado 2 Adultos (Calculado)" :> TRUE)
          @@ ("Precio Sin Tasa Privado 2 Adultos" :> Round2(privado.final))
          @@ ("Tasa Turística 2 Adultos" :> TasaOf2)
          @@ ("Interés 8% Privado 2 Adultos" :> Round2(privado.interes))
          @@ ("Precio Sin Tasa Compartido 2 Adultos" :> Round2(compartido.final))
          @@ ("Interés 8% Compartido 2 Adultos" :> Round2(compartido.interes))

(* lines 618, 630, 642: the shared room price of 1 adult *)
SharedRoom1(hostel, price_1_adult) ==
    IF IsPrivado(hostel) THEN FMul(price_1_adult, SharedFactor) ELSE price_1_adult

(* Fields1Adult with a private room price and final price for 1 adult *)
Fields1AdultWithPrivate(hostel, price_1_adult) ==
    IF ~(IsPrivado(hostel) \/ IsCompartidoOrHibrido(hostel)) THEN EmptyDict
    ELSE LET compartido == SinTasa(SharedRoom1(hostel, price_1_adult), Tasa)
             privado == SinTasa(PrivateRoom2(hostel, price_1_adult), Tasa)
         IN  ("Precio Hab Baño Compartido 1 Adulto" :> Round2(SharedRoom1(hostel, price_1_adult)))
          @@ ("Precio Sin Tasa Compartido 1 Adulto" :> Round2(compartido.final))
          @@ ("Tasa Turística 1 Adulto" :> Tasa)
          @@ ("Interés 8% Compartido 1 Adulto" :> Round2(compartido.interes))
          @@ ("Precio Hab Baño Privado 1 Adulto" :> Round2(PrivateRoom2(hostel, price_1_adult)))
          @@ ("Precio Sin Tasa Privado 1 Adulto" :> Round2(privado.final))

(* lines 614-650: the entries written for 1 adult *)
Fields1Adult(hostel, price_1_adult) ==
    IF ~(IsPrivado(hostel) \/ IsCompartidoOrHibrido(hostel)) THEN EmptyDict
    ELSE LET compartido == SinTasa(SharedRoom1(hostel, price_1_adult), Tasa)
         IN  ("Precio Hab Baño Compartido 1 Adulto" :> Round2(SharedRoom1(hostel, price_1_adult)))
          @@ ("Precio Sin Tasa Compartido 1 Adulto" :> Round2(compartido.final))
          @@ ("Tasa Turística 1 Adulto" :> Tasa)
          @@ ("Interés 8% Compartido 1 Adulto" :> Round2(compartido.interes))

(***************************************************************************)
(* process_hostel_data: one scraped record, then the whole list.           *)
(***************************************************************************)
(* lines 451-455 *)
ResultOf(hostel) ==
    ("Nombre Hotel" :> Get(hostel, "original_name", Get(hostel, "name", UnknownHotel)))
        @@ ("Tipo" :> Get(hostel, "type", UnknownType))
        @@ ("URL" :> Get(hostel, "url", << >>))

(* RangeFields with the nights between the two dates as the total *)
RangeFieldsNights(rep, suffix) ==
    IF rep.method = "mean"
    THEN ("Días con Disponibilidad" \o suffix :> rep.available_days_count)
            @@ ("Total Días en Rango" \o suffix :> rep.total_days_in_range - 1)
    ELSE EmptyDict

(* lines 495-496, 604-605: the day counts of a range (suffix "" or " 1A") *)
RangeFields(rep, suffix) ==
    IF rep.method = "mean"
    THEN ("Días con Disponibilidad" \o suffix :> rep.available_days_count)
            @@ ("Total Días en Rango" \o suffix :> rep.total_days_in_range)
    ELSE EmptyDict

(* lines 461-564, given the representative price of the 2-adult list *)
Block2(hostel, result, rep) ==
    IF rep.status = "ok"
    THEN [status |-> "ok",
          result |-> Update(Update(result, RangeFields(rep, "")),
                            Fields2Adults(hostel, rep.price))]
    ELSE IF rep.status = "skip" THEN [status |-> "ok", result |-> result]
    ELSE [status |-> rep.status]

(* lines 570-650, given the representative price of the 1-adult list *)
Block1(hostel, result, rep) ==
    IF rep.status = "ok"
    THEN [status |-> "ok",
          result |-> Update(Update(result, RangeFields(rep, " 1A")),
                            Fields1Adult(hostel, rep.price))]
    ELSE IF rep.status = "skip" THEN [status |-> "ok", result |-> result]
    ELSE [status |-> rep.status]

(* lines 458-564: the 2-adult block run on result *)
Adults2(hostel, result, selected_date, end) ==
    Block2(hostel, result, Representative(hostel, "price_2_adults", selected_date, end))

(* lines 567-650: the 1-adult block run on result *)
Adult1(hostel, result, selected_date, end) ==
    Block1(hostel, result, Representative(hostel, "price_1_adult", selected_date, end))

(* key.startswith('Precio'), for the keys process_hostel_data writes *)
StartsWithPrecio(key) ==
    key \in {"Precio Hab Baño Privado 2 Adultos",
             "Precio Hab Baño Compartido 2 Adultos",
             "Precio Hab Baño Privado 2 Adultos (Calculado)",
             "Precio Hab Baño Compartido 2 Adultos (Calculado)",
             "Precio Sin Tasa Privado 2 Adultos",
             "Precio Sin Tasa Compartido 2 Adultos",
             "Precio Hab Baño Compartido 1 Adulto",
             "Precio Sin Tasa Compartido 1 Adulto"}

(* MarkNoPrices that marks a record only if no field was added to it *)
MarkNoFields(result) ==
    IF DOMAIN result # {"Nombre Hotel", "Tipo", "URL"} THEN result
    ELSE Update(result, "Error" :> "No pricing data available for this hostel")

(* lines 653-654 *)
MarkNoPrices(result) ==
    IF \E key \in DOMAIN result : StartsWithPrecio(key) THEN result
    ELSE Update(result, "Error" :> "No pricing data available for this hostel")

(* lines 652-656: the 1-adult block done, the record is marked if it has   *)
(* no price and appended                                                   *)
Appended(a1) ==
    IF a1.status # "ok" THEN [status |-> a1.status]
    ELSE [status |-> "append", result |-> MarkNoPrices(a1.result)]

(* lines 566-656, a2 what the 2-adult block made of the record *)
After2Adults(hostel, a2, selected_date, end) ==
    IF a2.status # "ok" THEN [status |-> a2.status]
    ELSE Appended(Adult1(hostel, a2.result, selected_date, end))

(* lines 451-656: the body of the loop for a record without 'error'.       *)
(* status "append": result is appended to results; "continue": the loop    *)
(* went on to the next record at line 476, 485, 585 or 594, before line    *)
(* 656; "raise": an exception left the function                            *)
ProcessHostel(hostel, selected_date, end) ==
    After2Adults(hostel, Adults2(hostel, ResultOf(hostel), selected_date, end),
                 selected_date, end)

(* the two lists after the body of the loop ended as out says *)
Collected(acc, out) ==
    IF out.status = "raise" THEN [raised |-> TRUE]
    ELSE IF out.status = "continue" THEN acc
    ELSE [acc EXCEPT !.results = Append(@, out.result)]

(* lines 446-656: one turn of the loop, on a record, acc the two lists so  *)
(* far                                                                     *)
ProcessTurn(acc, hostel, selected_date, end) ==
    IF "error" \in DOMAIN hostel
    THEN [acc EXCEPT !.error_hostels = Append(@, hostel)]
    ELSE Collected(acc, ProcessHostel(hostel, selected_date, end))

(* lines 446-656: the loop from record k on; an exception ends it *)
RECURSIVE ProcessFrom(_, _, _, _, _)
ProcessFrom(data, k, selected_date, end, acc) ==
    IF k > Len(data) \/ acc.raised THEN acc
    ELSE ProcessFrom(data, k + 1, selected_date, end,
                     ProcessTurn(acc, data[k], selected_date, end))

(* lines 439-659 *)
process_hostel_data(data, selected_date, end) ==
    ProcessFrom(data, 1, selected_date, end,
                [raised |-> FALSE, results |-> << >>, error_hostels |-> << >>])

(***************************************************************************)
(* Inputs: the property list, the dates, and what the remote site answers. *)
(***************************************************************************)
SlugWord(i) ==
    CASE i = 1 -> "ramos" [] i = 2 -> "europa" [] i = 3 -> "fina" [] OTHER -> "paris"

NameOf(i) == Chars("Hostal ") \o TitleFrom(Chars(SlugWord(i)), 1, FALSE) \o Chars(" 2")

TypeOf(i) ==
    CASE i = 1 -> "Privado" [] i = 2 -> "Hibrido" [] i = 3 -> "Compartido"
      [] OTHER -> "Privado"

UrlOf(i) == Chars("https://www.booking.com/hotel/es/hostal-" \o SlugWord(i) \o ".es.html")

(* a URL that is not one of a hotel page: re.search of line 302 finds      *)
(* nothing in it                                                           *)
UrlPlain == Chars("https://www.booking.com/hostal-ramos")

(* the property records position i of a batch can hold: with a url, with   *)
(* an empty url                                                            *)
BatchHostels(i) ==
    {[name |-> NameOf(i), type |-> TypeOf(i), url |-> UrlOf(i)],
     [name |-> NameOf(i), type |-> TypeOf(i), url |-> << >>]}

(* every shape of property record: url and link each present, empty or     *)
(* missing, the name or the type missing; a url that is not one of a hotel *)
(* page, one whose segment after hotel/ is not a word, one with hotel/ at  *)
(* the end of a longer segment                                             *)
FetcherHostels ==
    LET base == {[name |-> NameOf(1), type |-> TypeOf(1)], [name |-> NameOf(1)],
                 [type |-> TypeOf(1)]}
        withUrl(S) == S \cup {Put(h, "url", UrlOf(1)) : h \in S}
                        \cup {Put(h, "url", << >>) : h \in S}
        withLink(S) == S \cup {Put(h, "link", UrlOf(2)) : h \in S}
                         \cup {Put(h, "link", << >>) : h \in S}
    IN  withLink(withUrl(base))
            \cup {[name |-> NameOf(1), type |-> TypeOf(1), url |-> UrlPlain],
                  [type |-> TypeOf(1), link |-> UrlPlain],
                  [name |-> NameOf(2), type |-> TypeOf(1),
                   url |-> Chars("https://www.booking.com/hotel/es%20x/hostal-ramos.es.html")],
                  [name |-> NameOf(2), type |-> TypeOf(1),
                   url |-> Chars("https://www.booking.com/grandhotel/es/hostal-ramos.es.html")]}

(* landing pages: all markers, none, none but a link, one marker missing   *)
DocFull == [hotelName |-> Chars("hostal-ramos"), hotelCountry |-> "es",
            b_csrf_token |-> "tok"]

DocBare == EmptyDict

DocHref == [href |-> UrlOf(3)]

DocNoName == [hotelCountry |-> "es", b_csrf_token |-> "tok"]

DocNoCountry == [hotelName |-> Chars("hostal-ramos"), b_csrf_token |-> "tok"]

DocNoCsrf == [hotelName |-> Chars("hostal-ramos"), hotelCountry |-> "es"]

Raise(e) == [kind |-> "raise", exc |-> e]

(* the outcomes of awaiting session.get(url) *)
GetOutcomes(url, statuses, docs) ==
    {Raise("ConnectError")}
        \cup {[kind |-> "response", status_code |-> c, text |-> d, url |-> url] :
                c \in statuses, d \in docs}

Day(checkin, available, text) ==
    [checkin |-> checkin, available |-> available, avgPriceFormatted |-> text]

DaysA == <<Day(StrfDate(MaxBack), TRUE, <<"E", " ", "4", "5", ".", "5">>),
           Day(StrfDate(MaxBack + 1), FALSE, <<"E", " ", "0">>)>>

(* days without the formatted price *)
DaysNoPrice == <<[checkin |-> StrfDate(MaxBack), available |-> FALSE]>>

(* JSON bodies of the availability endpoint *)
BodyDays(days) == [data |-> [availabilityCalendar |-> [days |-> [array |-> days]]]]

(* the outcomes of awaiting session.post(...): an exception, a response    *)
(* with a JSON body, a response whose body is not JSON                     *)
PostOutcomes(statuses, bodies, others) ==
    {Raise("ConnectError")}
        \cup {[kind |-> "response", status_code |-> c, json |-> TRUE, content |-> b] :
                c \in statuses, b \in bodies}
        \cup {[kind |-> "response", status_code |-> c, json |-> FALSE,
               content |-> EmptyDict] : c \in others}

(* day records on the dates offsets[k] days after MaxBack, with the         *)
(* formatted prices texts[k]                                               *)
DaysOn(offsets, texts) ==
    [k \in 1..Len(texts) |-> Day(StrfDate(MaxBack + offsets[k]), TRUE, texts[k])]

(* the price lists a record is processed with: none; one day at 101; a day *)
(* without availability between two with; two rooms on the first day and a *)
(* cheaper later day; 0.01 on the first day; nothing but unparsable and    *)
(* zero; three days of mean 100/3; two days of 1.13 and 1.14, whose mean   *)
(* as a double lies below 1.135; one day at 2.675, a double below 2.675    *)
(* whose product with 100.0 is 267.5; days without the formatted price; a  *)
(* day without checkin                                                     *)
PriceLists ==
    {<< >>,
     DaysOn(<<0>>, << <<"1", "0", "1">> >>),
     DaysOn(<<0, 1, 2>>, << <<"E", " ", "4", "0">>, <<"E", " ", "0">>,
                            <<"E", " ", "2", "0">> >>),
     DaysOn(<<0, 0, 1>>, << <<"5", "0">>, <<"4", "5", ".", "5", "0">>, <<"2", "0">> >>),
     DaysOn(<<0, 1>>, << <<"0", ".", "0", "1">>, <<"6", "0", ".", "5", "0">> >>),
     DaysOn(<<0, 1>>, << <<"x">>, <<"0">> >>),
     DaysOn(<<0, 1, 2>>, << <<"3", "0">>, <<"3", "0">>, <<"4", "0">> >>),
     DaysOn(<<0, 1>>, << <<"1", ".", "1", "3">>, <<"1", ".", "1", "4">> >>),
     DaysOn(<<0>>, << <<"2", ".", "6", "7", "5">> >>),
     DaysNoPrice,
     <<[available |-> TRUE, avgPriceFormatted |-> <<"7", "0">>]>>}

BatchPostOutcomes == PostOutcomes({200}, {BodyDays(DaysA)}, {})

(* the bodies with status 200: day lists; an object without days, without *)
(* availabilityCalendar, without data; a null for data, for                *)
(* availabilityCalendar, for days.  With status 500: a day list            *)
FetcherPostOutcomes ==
    PostOutcomes({200},
                 {BodyDays(DaysA), BodyDays(DaysNoPrice), BodyDays(<< >>),
                  [data |-> [availabilityCalendar |-> [message |-> "error"]]],
                  [data |-> [other |-> "x"]],
                  [errors |-> "x"],
                  [data |-> JsonNull],
                  [data |-> [availabilityCalendar |-> JsonNull]],
                  [data |-> [availabilityCalendar |-> [days |-> JsonNull]]]},
                 {200, 500})
        \cup PostOutcomes({500}, {BodyDays(DaysA)}, {})

(***************************************************************************)
(* The hostel-list editor of main.  A Python list is an object: the value  *)
(* of list_objects at a key is the content of one list object, and         *)
(* editable_hostels is the key of the list object                          *)
(* st.session_state.editable_hostels refers to.  "DEFAULT_HOSTELS" is the  *)
(* module-level list of lines 39-120, "copy" the list the last .copy() of  *)
(* line 138 or 809 made (the one before it is no longer referred to).      *)
(* editing_index is the 0-based index of line 798, clicked the buttons     *)
(* whose handlers ran so far.                                              *)
(***************************************************************************)
BookingPrefix == Chars("https://www.booking.com")

(* lines 39-120 *)
DEFAULT_HOSTELS ==
    << [name |-> Chars("Hostal Ramos"), type |-> "Privado",
       url |-> Chars("https://www.booking.com/hotel/es/hostal-ramos.es.html")],
      [name |-> Chars("Hostal Santa Ana"), type |-> "Hibrido",
       url |-> Chars("https://www.booking.com/hotel/es/hostal-santa-ana.es.html")],
      [name |-> Chars("Hostal Europa"), type |-> "Hibrido",
       url |-> Chars("https://www.booking.com/hotel/es/hostal-europa.es.html")],
      [name |-> Chars("Hostal Levante Barcelona"), type |-> "Privado",
       url |-> Chars("https://www.booking.com/hotel/es/hostal-levante-s-c-p.es.html")],
      [name |-> Chars("Hostal Nuevo Colon"), type |-> "Hibrido",
       url |-> Chars("https://www.booking.com/hotel/es/hostal-nuevo-colon.es.html")],
      [name |-> Chars("Hostal Benidorm"), type |-> "Privado",
       url |-> Chars("https://www.booking.com/hotel/es/hostal-benidorm.es.html")],
      [name |-> Chars("Hostal Fina"), type |-> "Privado",
       url |-> Chars("https://www.booking.com/hotel/es/hostal-fina.es.html")],
      [name |-> Chars("Hostal Paris"), type |-> "Privado",
       url |-> Chars("https://www.booking.com/hotel/es/hostal-paris.es.html")],
      [name |-> Chars("Pensión Iznájar Barcelona"), type |-> "Privado",
       url |-> Chars("https://www.booking.com/hotel/es/hostal-iznajar-barcelona.es.html")],
      [name |-> Chars("Hotel Lloret Ramblas"), type |-> "Privado",
       url |-> Chars("https://www.booking.com/hotel/es/lloret.es.html")],
      [name |-> Chars("Hostal Lausanne"), type |-> "Privado",
       url |-> Chars("https://www.booking.com/hotel/es/hostal-lausanne.es.html")],
      [name |-> Chars("Hostal Hera"), type |-> "Privado",
       url |-> Chars("https://www.booking.com/hotel/es/pension-francia.es.html")],
      [name |-> Chars("Hostal Marenostrum"), type |-> "Privado",
       url |-> Chars("https://www.booking.com/hotel/es/hostal-mare-nostrum.es.html")],
      [name |-> Chars("Hotel Lyon"), type |-> "Privado",
       url |-> Chars("https://www.booking.com/hotel/es/lyon.es.html")],
      [name |-> Chars("Pensión 45"), type |-> "Compartido",
       url |-> Chars("https://www.booking.com/hotel/es/pension-45.es.html")],
      [name |-> Chars("Hostal Capitol Ramblas"), type |-> "Compartido",
       url |-> Chars("https://www.booking.com/hotel/es/hostal-capitol-ramblas.es.html")] >>

(* None *)
None == [None |-> TRUE]

(* the __round__ a numpy.float64 has in the build: numpy's own, or the one  *)
(* of Python's float                                                       *)
RoundImpls == {"numpy", "float"}

(* lines 136-148: the session state when the script first runs *)
EditorStart ==
    /\ list_objects = [o \in {"DEFAULT_HOSTELS", "copy"} |-> DEFAULT_HOSTELS]
    /\ editable_hostels = "copy"
    /\ editing_hostel = None
    /\ editing_index = -1
    /\ clicked = << >>

(***************************************************************************)
(* State.  pc[i] is the await at which task i of the gather is suspended:  *)
(* "ready" (created, not yet run), "get" (line 271), "post2" and "post1"   *)
(* (line 405, called from lines 317 and 333), "done" (returned).           *)
(* sent[i] and received[i] log the requests task i issued on the session   *)
(* and the outcomes it awaited; finished lists the tasks in the order they *)
(* returned.  round_impl is which round(x, 2) the installed numpy gives a  *)
(* numpy.float64; it is fixed for the run.                                 *)
(***************************************************************************)
Tasks == 1..Len(hostels)

InitTasks ==
    /\ pc = [i \in Tasks |-> "ready"]
    /\ hotel_info = [i \in Tasks |-> EmptyDict]
    /\ tokens = [i \in Tasks |-> EmptyDict]
    /\ sent = [i \in Tasks |-> << >>]
    /\ received = [i \in Tasks |-> << >>]
    /\ ret = [i \in Tasks |-> EmptyDict]
    /\ finished = << >>
    /\ hostels_data = << >>
    /\ batch = "gathering"
    /\ session = "open"
    /\ results = << >>
    /\ error_hostels = << >>
    /\ EditorStart
    /\ round_impl \in RoundImpls

(* a batch of up to NumHostels properties, for a single day or a range *)
Init ==
    /\ \E n \in 0..NumHostels :
          hostels \in {h \in [1..n -> UNION {BatchHostels(i) : i \in 1..n}] :
                          \A i \in 1..n : h[i] \in BatchHostels(i)}
    /\ start_date = MaxBack
    /\ end_date \in {NoDate, start_date + 1}
    /\ InitTasks

(* one property, any start date, and no end date or any end date from      *)
(* MaxBack days before the start to MaxSpan days after it                  *)
InitDays ==
    /\ hostels = <<[name |-> NameOf(1), type |-> TypeOf(1), url |-> UrlOf(1)]>>
    /\ start_date \in MaxBack..(MaxBack + MaxStart)
    /\ end_date \in {NoDate} \cup ((start_date - MaxBack)..(start_date + MaxSpan))
    /\ InitTasks

(* the same property listed twice, a single day or a range *)
InitTwins ==
    /\ hostels = [i \in 1..2 |-> [name |-> NameOf(1), type |-> TypeOf(1), url |-> UrlOf(1)]]
    /\ start_date = MaxBack
    /\ end_date \in {NoDate, start_date + 1}
    /\ InitTasks

(* one property of any shape, a single day or a range *)
InitFetcher ==
    /\ hostels \in {<<h>> : h \in FetcherHostels}
    /\ start_date = MaxBack
    /\ end_date \in {NoDate, start_date + 2}
    /\ InitTasks

(* a failure record that still carries a price list *)
FailureWithPrices(hostel, url, error) ==
    [name |-> Get(hostel, "name", UnknownHotel),
     type |-> Get(hostel, "type", UnknownType),
     url |-> url,
     error |-> error,
     price_2_adults |-> << >>]

(* lines 262-267, 277-282, 353-358: the failure record *)
Failure(hostel, url, error) ==
    [name |-> Get(hostel, "name", UnknownHotel),
     type |-> Get(hostel, "type", UnknownType),
     url |-> url,
     error |-> error]

(* line 257 *)
EffectiveUrl(hostel) == Get(hostel, "url", Get(hostel, "link", << >>))

(* a task returns value v: the gather keeps it at the task's position *)
Return(i, v) ==
    /\ ret' = [ret EXCEPT ![i] = v]
    /\ pc' = [pc EXCEPT ![i] = "done"]
    /\ finished' = Append(finished, i)

(* line 274 *)
FetchFailed(r) == r.status_code # 200

(* Tokens with a missing country code left empty *)
TokensCountryEmpty(hostel, r) ==
    [hotel_country |-> Get(r.text, "hotelCountry", ""),
     hotel_name |->
        IF "hotelName" \in DOMAIN r.text THEN r.text["hotelName"]
        ELSE IF UrlMatch(r.url) # << >> THEN SlugToName(UrlMatch(r.url))
        ELSE Get(hostel, "name", UnknownHotel),
     csrf_token |-> Get(r.text, "b_csrf_token", "")]

(* lines 290-309: the three tokens out of a landing page *)
Tokens(hostel, r) ==
    [hotel_country |-> Get(r.text, "hotelCountry", "unknown"),
     hotel_name |->
        IF "hotelName" \in DOMAIN r.text THEN r.text["hotelName"]
        ELSE IF UrlMatch(r.url) # << >> THEN SlugToName(UrlMatch(r.url))
        ELSE Get(hostel, "name", UnknownHotel),
     csrf_token |-> Get(r.text, "b_csrf_token", "")]

(* lines 285-288, 311-313: hotel_info out of a landing page *)
HotelInfo(hostel, r) ==
    LET info == [name |-> parse_hotel(r.text).name,
                 url |-> r.url,
                 type |-> Get(hostel, "type", UnknownType),
                 original_name |-> Get(hostel, "name", UnknownHotel)]
        hotel_name == Tokens(hostel, r).hotel_name
    IN  IF hotel_name # << >> /\ info.name = << >>
        THEN [info EXCEPT !.name = hotel_name]
        ELSE info

(* lines 317-324, 333-340 with 360-413: the availability query sent *)
Query(i, tok, num_adults) ==
    PostRequest(tok.hotel_name, tok.hotel_country, tok.csrf_token, num_adults,
                start_date, end_date)

(* StorePrices without line 328 / 344: a failed query leaves no list *)
StorePricesNoList(info, key, res) ==
    IF res.ok THEN Put(info, key, res.value)
    ELSE Put(info, key \o "_error", <<res.exc>>)

(* lines 325-329, 341-345: the outcome of one query stored in hotel_info *)
StorePrices(info, key, res) ==
    IF res.ok THEN Put(info, key, res.value)
    ELSE Put(Put(info, key, << >>), key \o "_error", <<res.exc>>)

(***************************************************************************)
(* The steps of the coroutines.                                            *)
(***************************************************************************)
(* StartTask without the test of line 259: the request is sent whatever    *)
(* the URL                                                                 *)
StartTaskNoUrlTest(i) ==
    /\ batch = "gathering"
    /\ pc[i] = "ready"
    /\ \A j \in 1..(i - 1) : pc[j] # "ready"
    /\ sent' = [sent EXCEPT ![i] =
                    Append(@, [method |-> "GET", url |-> EffectiveUrl(hostels[i])])]
    /\ pc' = [pc EXCEPT ![i] = "get"]
    /\ UNCHANGED <<round_impl, editor_vars, session, results, error_hostels, hostels, start_date, end_date, hotel_info, tokens, received,
                   ret, finished, hostels_data, batch>>

(* line 435: asyncio.gather creates the tasks in input order and the event *)
(* loop first runs them in that order; lines 256-271: a task runs up to    *)
(* its first await, or returns at once when the property has no URL        *)
StartTask(i) ==
    /\ batch = "gathering"
    /\ pc[i] = "ready"
    /\ \A j \in 1..(i - 1) : pc[j] # "ready"
    /\ LET hostel == hostels[i]
           url == EffectiveUrl(hostel)
       IN  IF url = << >>
           THEN /\ Return(i, Failure(hostel, url, <<"Missing URL">>))
                /\ UNCHANGED sent
           ELSE /\ sent' = [sent EXCEPT ![i] = Append(@, [method |-> "GET", url |-> url])]
                /\ pc' = [pc EXCEPT ![i] = "get"]
                /\ UNCHANGED <<ret, finished>>
    /\ UNCHANGED <<round_impl, editor_vars, session, results, error_hostels, hostels, start_date, end_date, hotel_info, tokens, received,
                   hostels_data, batch>>

(* GetResponds without the handler of lines 349-358: an exception of the  *)
(* request leaves the task and the gather re-raises it in scrape_hotels    *)
GetRespondsUncaught(i, r) ==
    /\ pc[i] = "get"
    /\ received' = [received EXCEPT ![i] = Append(@, r)]
    /\ LET hostel == hostels[i]
           url == EffectiveUrl(hostel)
       IN  IF r.kind = "raise"
           THEN /\ pc' = [pc EXCEPT ![i] = "done"]
                /\ batch' = "raised"
                /\ UNCHANGED <<hotel_info, tokens, sent, ret, finished>>
           ELSE IF FetchFailed(r)
           THEN /\ Return(i, Failure(hostel, url, <<"HTTP status ", r.status_code>>))
                /\ UNCHANGED <<hotel_info, tokens, sent, batch>>
           ELSE /\ hotel_info' = [hotel_info EXCEPT ![i] = HotelInfo(hostel, r)]
                /\ tokens' = [tokens EXCEPT ![i] = Tokens(hostel, r)]
                /\ sent' = [sent EXCEPT ![i] = Append(@, Query(i, Tokens(hostel, r), 2))]
                /\ pc' = [pc EXCEPT ![i] = "post2"]
                /\ UNCHANGED <<ret, finished, batch>>
    /\ UNCHANGED <<round_impl, editor_vars, session, results, error_hostels, hostels, start_date, end_date, hostels_data>>

(* GetResponds that sends the landing page request once more when the     *)
(* first attempt raised                                                    *)
GetRespondsRetry(i, r) ==
    /\ pc[i] = "get"
    /\ received' = [received EXCEPT ![i] = Append(@, r)]
    /\ LET hostel == hostels[i]
           url == EffectiveUrl(hostel)
       IN  IF r.kind = "raise" /\ Len(sent[i]) = 1
           THEN /\ sent' = [sent EXCEPT ![i] = Append(@, [method |-> "GET", url |-> url])]
                /\ UNCHANGED <<pc, hotel_info, tokens, ret, finished>>
           ELSE IF r.kind = "raise"
           THEN /\ Return(i, Failure(hostel, url, <<r.exc>>))
                /\ UNCHANGED <<hotel_info, tokens, sent>>
           ELSE IF FetchFailed(r)
           THEN /\ Return(i, Failure(hostel, url, <<"HTTP status ", r.status_code>>))
                /\ UNCHANGED <<hotel_info, tokens, sent>>
           ELSE /\ hotel_info' = [hotel_info EXCEPT ![i] = HotelInfo(hostel, r)]
                /\ tokens' = [tokens EXCEPT ![i] = Tokens(hostel, r)]
                /\ sent' = [sent EXCEPT ![i] = Append(@, Query(i, Tokens(hostel, r), 2))]
                /\ pc' = [pc EXCEPT ![i] = "post2"]
                /\ UNCHANGED <<ret, finished>>
    /\ UNCHANGED <<round_impl, editor_vars, session, results, error_hostels, hostels, start_date, end_date, hostels_data, batch>>

(* GetResponds with the tokens kept in one place for all tasks: the tokens *)
(* of the page just read replace those of every task                       *)
GetRespondsSharedTokens(i, r) ==
    /\ pc[i] = "get"
    /\ received' = [received EXCEPT ![i] = Append(@, r)]
    /\ LET hostel == hostels[i]
           url == EffectiveUrl(hostel)
       IN  IF r.kind = "raise"
           THEN /\ Return(i, Failure(hostel, url, <<r.exc>>))
                /\ UNCHANGED <<hotel_info, tokens, sent>>
           ELSE IF FetchFailed(r)
           THEN /\ Return(i, Failure(hostel, url, <<"HTTP status ", r.status_code>>))
                /\ UNCHANGED <<hotel_info, tokens, sent>>
           ELSE /\ hotel_info' = [hotel_info EXCEPT ![i] = HotelInfo(hostel, r)]
                /\ tokens' = [j \in Tasks |-> Tokens(hostel, r)]
                /\ sent' = [sent EXCEPT ![i] = Append(@, Query(i, Tokens(hostel, r), 2))]
                /\ pc' = [pc EXCEPT ![i] = "post2"]
                /\ UNCHANGED <<ret, finished>>
    /\ UNCHANGED <<round_impl, editor_vars, session, results, error_hostels, hostels, start_date, end_date,
                   hostels_data, batch>>

(* lines 271-317 with 360-405: the landing page request completes with     *)
(* outcome r; the task returns a failure record or sends the 2-adult query *)
GetResponds(i, r) ==
    /\ pc[i] = "get"
    /\ received' = [received EXCEPT ![i] = Append(@, r)]
    /\ LET hostel == hostels[i]
           url == EffectiveUrl(hostel)
       IN  IF r.kind = "raise"
           THEN /\ Return(i, Failure(hostel, url, <<r.exc>>))
                /\ UNCHANGED <<hotel_info, tokens, sent>>
           ELSE IF FetchFailed(r)
           THEN /\ Return(i, Failure(hostel, url, <<"HTTP status ", r.status_code>>))
                /\ UNCHANGED <<hotel_info, tokens, sent>>
           ELSE /\ hotel_info' = [hotel_info EXCEPT ![i] = HotelInfo(hostel, r)]
                /\ tokens' = [tokens EXCEPT ![i] = Tokens(hostel, r)]
                /\ sent' = [sent EXCEPT ![i] = Append(@, Query(i, Tokens(hostel, r), 2))]
                /\ pc' = [pc EXCEPT ![i] = "post2"]
                /\ UNCHANGED <<ret, finished>>
    /\ UNCHANGED <<round_impl, editor_vars, session, results, error_hostels, hostels, start_date, end_date, hostels_data, batch>>

(* lines 405-433, 325-340 with 360-405: the 2-adult query completes with   *)
(* outcome r; its result or its error is stored and the 1-adult query sent *)
Post2Responds(i, r) ==
    /\ pc[i] = "post2"
    /\ received' = [received EXCEPT ![i] = Append(@, r)]
    /\ hotel_info' = [hotel_info EXCEPT
                        ![i] = StorePrices(@, "price_2_adults", ScrapePricesResult(r))]
    /\ sent' = [sent EXCEPT ![i] = Append(@, Query(i, tokens[i], 1))]
    /\ pc' = [pc EXCEPT ![i] = "post1"]
    /\ UNCHANGED <<round_impl, editor_vars, session, results, error_hostels, hostels, start_date, end_date, tokens, ret, finished,
                   hostels_data, batch>>

(* lines 405-433, 341-347: the 1-adult query completes with outcome r; its *)
(* result or its error is stored and the task returns hotel_info           *)
Post1Responds(i, r) ==
    /\ pc[i] = "post1"
    /\ received' = [received EXCEPT ![i] = Append(@, r)]
    /\ LET info == StorePrices(hotel_info[i], "price_1_adult", ScrapePricesResult(r))
       IN  /\ hotel_info' = [hotel_info EXCEPT ![i] = info]
           /\ Return(i, info)
    /\ UNCHANGED <<round_impl, editor_vars, session, results, error_hostels, hostels, start_date, end_date, tokens, sent, hostels_data, batch>>

(* the values in the order the tasks returned *)
GatheredByCompletion == [k \in Tasks |-> ret[finished[k]]]

(* line 435: the list asyncio.gather returns: each task's value at the     *)
(* position of its coroutine in the argument list                          *)
Gathered == [i \in Tasks |-> ret[i]]

(* lines 435-436: every task has returned; scrape_hotels returns the list *)
GatherReturns ==
    /\ batch = "gathering"
    /\ \A i \in Tasks : pc[i] = "done"
    /\ hostels_data' = Gathered
    /\ batch' = "returned"
    /\ UNCHANGED <<round_impl, editor_vars, session, results, error_hostels, hostels, start_date, end_date, pc, hotel_info, tokens, sent,
                   received, ret, finished>>

(* RunScrapeEnds that leaves the session open when the processing raised *)
RunScrapeEndsOpen(out) ==
    IF out.raised
    THEN /\ batch' = "raised"
         /\ UNCHANGED <<session, results, error_hostels>>
    ELSE /\ batch' = "processed"
         /\ results' = out.results
         /\ error_hostels' = out.error_hostels
         /\ session' = "closed"

(* line 671 and the end of the async with block of line 663: run_scrape    *)
(* returns the pair of lists process_hostel_data gave, or the exception it *)
(* raised leaves run_scrape; either way the block is left and closes the   *)
(* session                                                                 *)
RunScrapeEnds(out) ==
    /\ IF out.raised
       THEN /\ batch' = "raised"
            /\ UNCHANGED <<results, error_hostels>>
       ELSE /\ batch' = "processed"
            /\ results' = out.results
            /\ error_hostels' = out.error_hostels
    /\ session' = "closed"

(* lines 663-671: the gather has returned; run_scrape hands the list to    *)
(* process_hostel_data and ends                                            *)
Process ==
    /\ batch = "returned"
    /\ RunScrapeEnds(process_hostel_data(hostels_data, start_date, end_date))
    /\ UNCHANGED <<round_impl, editor_vars, hostels, start_date, end_date, pc, hotel_info, tokens, sent,
                   received, ret, finished, hostels_data>>

Next ==
    \/ \E i \in Tasks : StartTask(i)
    \/ \E i \in Tasks : \E r \in GetOutcomes(EffectiveUrl(hostels[i]), {200, 404}, {DocFull}) :
          GetResponds(i, r)
    \/ \E i \in Tasks : \E r \in BatchPostOutcomes : Post2Responds(i, r)
    \/ \E i \in Tasks : \E r \in BatchPostOutcomes : Post1Responds(i, r)
    \/ GatherReturns
    \/ Process

Spec == Init /\ [][Next]_vars

SpecDays == InitDays /\ [][Next]_vars

SpecTwins == InitTwins /\ [][Next]_vars

NextFetcher ==
    \/ \E i \in Tasks : StartTask(i)
    \/ \E i \in Tasks :
          \E r \in GetOutcomes(EffectiveUrl(hostels[i]), {200, 204, 404},
                               {DocFull, DocBare, DocHref, DocNoName, DocNoCountry,
                                DocNoCsrf}) :
              GetResponds(i, r)
    \/ \E i \in Tasks : \E r \in FetcherPostOutcomes : Post2Responds(i, r)
    \/ \E i \in Tasks : \E r \in FetcherPostOutcomes : Post1Responds(i, r)
    \/ GatherReturns
    \/ Process

SpecFetcher == InitFetcher /\ [][NextFetcher]_vars


(* lines 271-347: the record scrape_hostel returns for property i of type  *)
(* t when its landing page comes with status 200 and its two queries give  *)
(* the day lists days2 and days1                                           *)
Scraped(i, t, days2, days1) ==
    LET hostel == [name |-> NameOf(i), type |-> t, url |-> UrlOf(i)]
        r == [kind |-> "response", status_code |-> 200, text |-> DocFull,
              url |-> UrlOf(i)]
    IN  StorePrices(StorePrices(HotelInfo(hostel, r), "price_2_adults",
                                [ok |-> TRUE, value |-> days2]),
                    "price_1_adult", [ok |-> TRUE, value |-> days1])

(* the gathered lists process_hostel_data is applied to: one record of any *)
(* type with any two price lists, alone or followed by a failure record or *)
(* by a record with prices                                                 *)
ProcessInputs ==
    LET first == {Scraped(1, t, d2, d1) :
                    t \in {"Privado", "Compartido", "Híbrido", "Hibrido", UnknownType},
                    d2 \in PriceLists, d1 \in PriceLists}
        second == {Failure([name |-> NameOf(2), type |-> "Privado", url |-> UrlOf(2)],
                           UrlOf(2), <<"HTTP status ", 404>>),
                   Scraped(2, "Compartido", DaysOn(<<0>>, << <<"1", "0", "1">> >>),
                           DaysOn(<<0>>, << <<"1", "0", "1">> >>))}
    IN  {<<h>> : h \in first} \cup {<<h, g>> : h \in first, g \in second}

(* the gather has returned one of ProcessInputs, for a single day, for a   *)
(* range that ends on its first day, or for a range of three days          *)
InitProcess ==
    /\ hostels_data \in ProcessInputs
    /\ hostels = [i \in 1..Len(hostels_data) |->
                    [name |-> NameOf(i), type |-> hostels_data[i].type, url |-> UrlOf(i)]]
    /\ start_date = MaxBack
    /\ end_date \in {NoDate, start_date, start_date + 2}
    /\ pc = [i \in Tasks |-> "done"]
    /\ hotel_info = [i \in Tasks |-> IF "error" \in DOMAIN hostels_data[i]
                                      THEN EmptyDict ELSE hostels_data[i]]
    /\ tokens = [i \in Tasks |-> EmptyDict]
    /\ sent = [i \in Tasks |-> << >>]
    /\ received = [i \in Tasks |-> << >>]
    /\ ret = [i \in Tasks |-> hostels_data[i]]
    /\ finished = [i \in Tasks |-> i]
    /\ batch = "returned"
    /\ session = "open"
    /\ results = << >>
    /\ error_hostels = << >>
    /\ EditorStart
    /\ round_impl \in RoundImpls

NextProcess == Process

SpecProcess == InitProcess /\ [][NextProcess]_vars

(***************************************************************************)
(* The hostel-list editor: one action per button of lines 787-867.  A      *)
(* click runs the script once with that button's handler; the handlers     *)
(* that change the session state end with st.rerun().                      *)
(***************************************************************************)
(* the longest series of clicks followed *)
MaxClicks == 4

(* the list st.session_state.editable_hostels refers to *)
Editable == list_objects[editable_hostels]

(* the rows whose Edit or Delete button gets clicked: the first two and    *)
(* the last (i of line 791, from 0)                                        *)
ClickedRows == {i \in {0, 1, Len(Editable) - 1} : i >= 0 /\ i < Len(Editable)}

(* what gets typed into a name field and a URL field; the third URL goes   *)
(* on after the prefix within the host name                                *)
TypedNames == {<< >>, Chars("Hostal Nou")}

TypedUrls ==
    {<< >>,
     Chars("https://www.booking.com/hotel/es/hostal-nou.html"),
     Chars("https://www.booking.comx/hotel/es/a.html"),
     Chars("http://example.org")}

(* s.startswith(prefix) *)
StartsWith(s, prefix) ==
    Len(s) >= Len(prefix) /\ SubSeq(s, 1, Len(prefix)) = prefix

(* the handler of button b ran *)
Click(b) ==
    /\ Len(clicked) < MaxClicks
    /\ clicked' = Append(clicked, b)

(* the editor leaves the batch and its results alone *)
EditorFrame ==
    UNCHANGED <<round_impl, hostels, start_date, end_date, pc, hotel_info, tokens, sent,
                received, ret, finished, hostels_data, batch, session, results,
                error_hostels>>

(* lines 796-799: Edit on row i *)
Edit(i) ==
    /\ i \in ClickedRows
    /\ Click("Edit")
    /\ editing_hostel' = Editable[i + 1]
    /\ editing_index' = i
    /\ UNCHANGED <<list_objects, editable_hostels>>
    /\ EditorFrame

(* lines 801-804: Delete on row i *)
Delete(i) ==
    /\ i \in ClickedRows
    /\ Click("Delete")
    /\ list_objects' = [list_objects EXCEPT ![editable_hostels] =
                            SubSeq(@, 1, i) \o SubSeq(@, i + 2, Len(@))]
    /\ UNCHANGED <<editable_hostels, editing_hostel, editing_index>>
    /\ EditorFrame

(* Reset that makes editable_hostels refer to DEFAULT_HOSTELS itself *)
ResetNoCopy ==
    /\ Click("Reset")
    /\ editable_hostels' = "DEFAULT_HOSTELS"
    /\ UNCHANGED <<list_objects, editing_hostel, editing_index>>
    /\ EditorFrame

(* lines 807-811: Reset to Original Predefined List; DEFAULT_HOSTELS.copy() *)
(* is a new list with the elements of DEFAULT_HOSTELS                       *)
Reset ==
    /\ Click("Reset")
    /\ list_objects' = [list_objects EXCEPT !["copy"] = list_objects["DEFAULT_HOSTELS"]]
    /\ editable_hostels' = "copy"
    /\ UNCHANGED <<editing_hostel, editing_index>>
    /\ EditorFrame

(* the values the fields of the form of lines 817-820 can hold: the ones   *)
(* of the hostel being edited, or typed ones; line 814: there is no form   *)
(* when no hostel is being edited                                          *)
EditNames ==
    IF editing_hostel = None THEN {} ELSE {editing_hostel.name} \cup TypedNames

EditTypes ==
    IF editing_hostel = None THEN {} ELSE {editing_hostel.type, "Compartido"}

EditUrls ==
    IF editing_hostel = None THEN {} ELSE {editing_hostel.url} \cup TypedUrls

(* lines 822-841: Save Changes with the form holding the three values.     *)
(* The assignment of line 837 raises IndexError when the index is past the *)
(* end of the list: the script run ends there, the session state is as it  *)
(* was                                                                     *)
Save(edit_name, edit_type, edit_url) ==
    /\ editing_hostel # None
    /\ edit_name # << >>
    /\ edit_url # << >>
    /\ StartsWith(edit_url, BookingPrefix)
    /\ IF editing_index < Len(Editable)
       THEN /\ Click("Save")
            /\ list_objects' =
                  [list_objects EXCEPT ![editable_hostels][editing_index + 1] =
                      [name |-> edit_name, type |-> edit_type, url |-> edit_url]]
            /\ editing_hostel' = None
            /\ editing_index' = -1
            /\ UNCHANGED editable_hostels
       ELSE /\ Click("Save: IndexError")
            /\ UNCHANGED <<list_objects, editable_hostels, editing_hostel, editing_index>>
    /\ EditorFrame

(* lines 842-846: Cancel Editing *)
Cancel ==
    /\ editing_hostel # None
    /\ Click("Cancel")
    /\ editing_hostel' = None
    /\ editing_index' = -1
    /\ UNCHANGED <<list_objects, editable_hostels>>
    /\ EditorFrame

(* lines 849-867: Add to Predefined List with the form holding the values *)
Add(new_hostel_name, new_hostel_type, new_hostel_url) ==
    /\ new_hostel_name # << >>
    /\ new_hostel_url # << >>
    /\ StartsWith(new_hostel_url, BookingPrefix)
    /\ Click("Add")
    /\ list_objects' =
          [list_objects EXCEPT ![editable_hostels] =
              Append(@, [name |-> new_hostel_name, type |-> new_hostel_type,
                         url |-> new_hostel_url])]
    /\ UNCHANGED <<editable_hostels, editing_hostel, editing_index>>
    /\ EditorFrame

(* the editor as the script first shows it; no batch is running *)
InitEditor ==
    /\ hostels = << >>
    /\ start_date = MaxBack
    /\ end_date = NoDate
    /\ InitTasks

NextEditor ==
    \/ \E i \in 0..(Len(Editable) - 1) : Edit(i)
    \/ \E i \in 0..(Len(Editable) - 1) : Delete(i)
    \/ Reset
    \/ \E edit_name \in EditNames : \E edit_type \in EditTypes :
          \E edit_url \in EditUrls : Save(edit_name, edit_type, edit_url)
    \/ Cancel
    \/ \E new_hostel_name \in TypedNames : \E new_hostel_url \in TypedUrls :
          Add(new_hostel_name, "Hibrido", new_hostel_url)

SpecEditor == InitEditor /\ [][NextEditor]_vars

(***************************************************************************)
(* Vocabulary of the properties.                                           *)
(***************************************************************************)
Is2xx(c) == c >= 200 /\ c <= 299

IsFailureShape(res) ==
    /\ "error" \in DOMAIN res
    /\ "price_2_adults" \notin DOMAIN res
    /\ "price_1_adult" \notin DOMAIN res

IsSuccessShape(res) ==
    /\ "error" \notin DOMAIN res
    /\ "price_2_adults" \in DOMAIN res
    /\ "price_1_adult" \in DOMAIN res

(* the result res is the one of the property record hostel *)
BelongsTo(res, hostel) ==
    IF "error" \in DOMAIN res THEN res.name = hostel.name
    ELSE res.original_name = hostel.name

(* the landing page request of task i was answered and did not succeed *)
GetFailed(i) ==
    /\ Len(received[i]) >= 1
    /\ \/ received[i][1].kind = "raise"
       \/ received[i][1].status_code # 200

(* the availability query number k (2: two adults, 3: one adult) of task i *)
(* raised                                                                  *)
QueryRaised(i, k) ==
    /\ Len(received[i]) >= k
    /\ \/ received[i][k].kind = "raise"
       \/ ~received[i][k].json
       \/ ~DaysOfBody(received[i][k].content).ok

(* the availability query number k of task i was answered with a day list *)
QueryGaveDays(i, k) ==
    /\ Len(received[i]) >= k
    /\ received[i][k].kind = "response"
    /\ received[i][k].json
    /\ "data" \in DOMAIN received[i][k].content
    /\ "availabilityCalendar" \in DOMAIN received[i][k].content["data"]
    /\ ~IsJsonNull(received[i][k].content["data"]["availabilityCalendar"])
    /\ "days" \in DOMAIN received[i][k].content["data"]["availabilityCalendar"]
    /\ ~IsJsonNull(received[i][k].content["data"]["availabilityCalendar"]["days"])

DaysOf(i, k) == received[i][k].content["data"]["availabilityCalendar"]["days"].array

PriceKey(k) == IF k = 2 THEN "price_2_adults" ELSE "price_1_adult"

ErrorKey(k) == IF k = 2 THEN "price_2_adults_error" ELSE "price_1_adult_error"

(* C1: scrape_hotels returns one result per input property, the result at  *)
(* position i being the one of the input property at position i, whatever  *)
(* the order in which the tasks completed.                                 *)
C1_OrderPreserved ==
    batch = "returned" =>
        /\ Len(hostels_data) = Len(hostels)
        /\ \A i \in Tasks : BelongsTo(hostels_data[i], hostels[i])

(* two properties, the second of which completed first *)
C1_Witness ==
    /\ batch = "returned"
    /\ Len(hostels) >= 2
    /\ finished[1] = 2
    /\ Len(received[1]) = 3
    /\ BelongsTo(hostels_data[2], hostels[2])

(* some request of task i raised or failed *)
Troubled(i) == GetFailed(i) \/ QueryRaised(i, 2) \/ QueryRaised(i, 3)

(* the result of property j is what its own URL and its own responses make *)
(* it                                                                      *)
OwnResult(j) ==
    LET res == hostels_data[j] IN
    /\ BelongsTo(res, hostels[j])
    /\ IF hostels[j].url = << >> THEN res.error = <<"Missing URL">>
       ELSE IF GetFailed(j) THEN IsFailureShape(res)
       ELSE /\ IsSuccessShape(res)
            /\ \A k \in {2, 3} :
                  /\ QueryGaveDays(j, k) =>
                        /\ res[PriceKey(k)] = DaysOf(j, k)
                        /\ ErrorKey(k) \notin DOMAIN res
                  /\ QueryRaised(j, k) =>
                        /\ res[PriceKey(k)] = << >>
                        /\ ErrorKey(k) \in DOMAIN res

(* C2: batch isolation: when a request of one property raises or fails,    *)
(* the batch does not raise and the results of all other properties are    *)
(* present, in input order, and are what their own responses make them.    *)
C2_BatchIsolation ==
    /\ batch \in {"gathering", "returned", "processed"}
    /\ batch \in {"returned", "processed"} =>
          /\ Len(hostels_data) = Len(hostels)
          /\ \A i \in Tasks : Troubled(i) =>
                \A j \in Tasks \ {i} : OwnResult(j)

(* the landing page of one property raised, a query of it would have been  *)
(* the next to fail, and another property returned its day lists           *)
C2_Witness ==
    /\ batch = "returned"
    /\ \E i \in Tasks : \E j \in Tasks \ {i} :
          /\ GetFailed(i) /\ received[i][1].kind = "raise"
          /\ IsFailureShape(hostels_data[i])
          /\ IsSuccessShape(hostels_data[j])
          /\ QueryGaveDays(j, 2) /\ hostels_data[j].price_2_adults = DaysA
          /\ QueryRaised(j, 3)

(* the property record has an empty URL: an empty url, or no url and no    *)
(* link to stand for it                                                    *)
HasEmptyUrl(h) ==
    IF "url" \in DOMAIN h THEN h.url = << >>
    ELSE IF "link" \in DOMAIN h THEN h.link = << >>
    ELSE TRUE

(* C3: a property with an empty URL issues no request, never waits at a    *)
(* suspension point, and its result is the Missing URL failure record.     *)
C3_EmptyUrlNoNetwork ==
    \A i \in Tasks : HasEmptyUrl(hostels[i]) =>
        /\ sent[i] = << >>
        /\ received[i] = << >>
        /\ pc[i] \in {"ready", "done"}
        /\ pc[i] = "done" =>
              /\ IsFailureShape(ret[i])
              /\ Len(ret[i].error) = 1 /\ ret[i].error[1] = "Missing URL"

(* a property whose url is empty has returned *)
C3_Witness ==
    /\ batch = "returned"
    /\ "url" \in DOMAIN hostels[1] /\ hostels[1].url = << >>
    /\ hostels_data[1].error = <<"Missing URL">>
    /\ sent[1] = << >>

(* C4: the landing page fetch yields the failure record carrying the       *)
(* status code exactly when the status is not 2xx; every 2xx response goes *)
(* on to the availability queries, and after a non-2xx response no         *)
(* availability query is sent.                                             *)
C4_FetchErrorIffNot2xx ==
    \A i \in Tasks :
        (Len(received[i]) >= 1 /\ received[i][1].kind = "response") =>
            IF Is2xx(received[i][1].status_code)
            THEN /\ Len(sent[i]) >= 2
                 /\ pc[i] = "done" => IsSuccessShape(ret[i])
            ELSE /\ pc[i] = "done"
                 /\ Len(sent[i]) = 1
                 /\ IsFailureShape(ret[i])
                 /\ ret[i].error = <<"HTTP status ", received[i][1].status_code>>

(* C5: the two availability queries of a property are isolated: a query    *)
(* that raises leaves an empty list and its per-field error, the other     *)
(* query is still sent and its outcome kept, and the result is             *)
(* success-shaped.                                                         *)
C5_QueriesIsolated ==
    \A i \in Tasks :
        /\ Len(received[i]) >= 2 =>
              /\ Len(sent[i]) = 3
              /\ sent[i][2].nbAdults = 2
              /\ sent[i][3].nbAdults = 1
        /\ (pc[i] = "done" /\ Len(received[i]) >= 2) =>
              /\ Len(received[i]) = 3
              /\ IsSuccessShape(ret[i])
              /\ \A k \in {2, 3} :
                    /\ QueryRaised(i, k) =>
                          /\ ret[i][PriceKey(k)] = << >>
                          /\ ErrorKey(k) \in DOMAIN ret[i]
                    /\ QueryGaveDays(i, k) =>
                          /\ ret[i][PriceKey(k)] = DaysOf(i, k)
                          /\ ErrorKey(k) \notin DOMAIN ret[i]

(* the 2-adult query raised and the 1-adult query returned its days *)
C5_Witness ==
    /\ pc[1] = "done"
    /\ QueryRaised(1, 2) /\ received[1][2].kind = "raise"
    /\ ret[1].price_2_adults_error = <<"ConnectError">>
    /\ QueryGaveDays(1, 3)
    /\ ret[1].price_1_adult = DaysA

(* the stored outcome of query k of task i is a per-field error *)
RecordedAsError(i, k) ==
    /\ ErrorKey(k) \in DOMAIN hotel_info[i]
    /\ hotel_info[i][PriceKey(k)] = << >>

(* C6: an availability response with a non-2xx status makes the query     *)
(* fail: it is recorded as the adult count's per-field error, with an      *)
(* empty list, and is not returned as a successful day list.               *)
C6_TransportError ==
    \A i \in Tasks : \A k \in {2, 3} :
        (/\ Len(received[i]) >= k
         /\ received[i][k].kind = "response"
         /\ ~Is2xx(received[i][k].status_code)) =>
            RecordedAsError(i, k)

(* the JSON body r lacks the result envelope: no data, no                  *)
(* availabilityCalendar, or no days                                        *)
EnvelopeMissing(r) ==
    /\ r.kind = "response"
    /\ r.json
    /\ \/ "data" \notin DOMAIN r.content
       \/ /\ ~IsJsonNull(r.content["data"])
          /\ \/ "availabilityCalendar" \notin DOMAIN r.content["data"]
             \/ "days" \notin DOMAIN r.content["data"]["availabilityCalendar"]

(* C7: an availability response that lacks the result envelope makes the   *)
(* query fail, recorded as the adult count's per-field error; it is not a  *)
(* successful empty day list.                                              *)
C7_SchemaError ==
    \A i \in Tasks : \A k \in {2, 3} :
        (Len(received[i]) >= k /\ EnvelopeMissing(received[i][k])) =>
            RecordedAsError(i, k)

DaySpan == IF end_date # NoDate THEN (end_date - start_date) + 1 ELSE 1

Min(a, b) == IF a <= b THEN a ELSE b

(* C8: every availability query carries amountOfDays = min(dayspan, 30),   *)
(* dayspan being (end - start).days + 1 with an end date and 1 without.    *)
C8_DayCount ==
    \A i \in Tasks : \A k \in 1..Len(sent[i]) :
        sent[i][k].method = "POST" =>
            sent[i][k].amountOfDays = Min(DaySpan, 30)

(* both queries of a property were sent for a range of more than 30 days *)
C8_Witness ==
    /\ Len(hostels) >= 1
    /\ end_date # NoDate
    /\ (end_date - start_date) + 1 > 30
    /\ Len(sent[1]) = 3
    /\ sent[1][2].amountOfDays = 30
    /\ sent[1][3].amountOfDays = 30

(* the requests of task i that satisfy P *)
CountSent(i, P(_)) == Cardinality({k \in 1..Len(sent[i]) : P(sent[i][k])})

IsGet(q) == q.method = "GET"

IsPost2(q) == q.method = "POST" /\ q.nbAdults = 2

IsPost1(q) == q.method = "POST" /\ q.nbAdults = 1

(* C9: no request is retried: a property causes at most one landing page   *)
(* GET and at most one availability POST per adult count, whatever the     *)
(* outcomes; a failed request is final: the error it caused is what the    *)
(* property returns.                                                       *)
C9_NoRetry ==
    \A i \in Tasks :
        /\ Len(sent[i]) <= 3
        /\ CountSent(i, IsGet) <= 1
        /\ CountSent(i, IsPost2) <= 1
        /\ CountSent(i, IsPost1) <= 1
        /\ Len(received[i]) <= Len(sent[i])
        /\ (Len(received[i]) >= 1 /\ received[i][1].kind = "raise") =>
              /\ pc[i] = "done"
              /\ IsFailureShape(ret[i])
              /\ Len(sent[i]) = 1
        /\ \A k \in {2, 3} :
              (Len(received[i]) >= k /\ received[i][k].kind = "raise") =>
                  RecordedAsError(i, k)

(* the landing page request raised and the property returned its error     *)
(* after that single request                                               *)
C9_Witness ==
    /\ batch = "returned"
    /\ Len(received[1]) = 1
    /\ received[1][1].kind = "raise"
    /\ sent[1] = <<[method |-> "GET", url |-> EffectiveUrl(hostels[1])]>>
    /\ hostels_data[1].error = <<"ConnectError">>

(* C10: every result scrape_hotels returns has exactly one shape: a        *)
(* failure record with an error and no price list, or a success record     *)
(* with both price lists and no top-level error.                           *)
C10_OneShape ==
    batch = "returned" =>
        \A i \in Tasks :
            LET keys == DOMAIN hostels_data[i] IN
            /\ "error" \in keys =>
                  ("price_2_adults" \notin keys /\ "price_1_adult" \notin keys)
            /\ "error" \notin keys =>
                  ("price_2_adults" \in keys /\ "price_1_adult" \in keys)

(* a success record whose 2-adult query failed: it carries a per-field     *)
(* error and both lists, and no top-level error                            *)
C10_Witness ==
    /\ batch = "returned"
    /\ "error" \notin DOMAIN hostels_data[1]
    /\ "price_2_adults_error" \in DOMAIN hostels_data[1]
    /\ hostels_data[1].price_2_adults = << >>
    /\ hostels_data[1].price_1_adult = DaysA

(***************************************************************************)
(* Claims about process_hostel_data, checked on the lists run_scrape       *)
(* returns.  A result record is matched with the scraped record of the     *)
(* same URL.                                                               *)
(***************************************************************************)
ScrapedRecords ==
    {hostels_data[k] : k \in {j \in 1..Len(hostels_data) :
                                "error" \notin DOMAIN hostels_data[j]}}

ResultRecords == {results[k] : k \in 1..Len(results)}

SourceOf(r) == CHOOSE h \in ScrapedRecords : h.url = r["URL"]

ListKey(adults) == IF adults = 2 THEN "price_2_adults" ELSE "price_1_adult"

(* the reported shared-room price, the one key every priced category has   *)
(* for both adult counts                                                   *)
SharedKey(adults) ==
    IF adults = 2 THEN "Precio Hab Baño Compartido 2 Adultos"
    ELSE "Precio Hab Baño Compartido 1 Adulto"

(* the shared room price the categories derive from a representative price *)
SharedFrom(h, p) == IF h.type = "Privado" THEN FMul(p, SharedFactor) ELSE p

(* the private room price the categories derive from it *)
PrivateFrom(h, p) == IF h.type = "Privado" THEN p ELSE FMul(p, PrivateFactor)

EntryPrice(day) ==
    IF "avgPriceFormatted" \in DOMAIN day THEN ExtractPrice(day["avgPriceFormatted"])
    ELSE NaN

EntryValid(day) == FGreater(EntryPrice(day), PriceFloor)

EntryOnDate(day) == "checkin" \in DOMAIN day /\ ParseDate(day["checkin"]) = start_date

(* the scraped record with the entries of price <= 0.01 or without a price *)
(* taken out of the list of the adult count                                *)
Cleaned(h, adults) == [h EXCEPT ![ListKey(adults)] = SelectSeq(@, EntryValid)]

(* C13: every day entry that takes part in the aggregation has a price     *)
(* above 0.01: for both adult counts, a reported price is the one derived  *)
(* from the representative price of the list without its entries of zero,  *)
(* at most 0.01 or unparsable price, and that representative is above 0.01.*)
C13_OnlyValidAggregated ==
    batch = "processed" =>
        \A r \in ResultRecords : \A adults \in {2, 1} :
            SharedKey(adults) \in DOMAIN r =>
                LET h == SourceOf(r)
                    rep == Representative(Cleaned(h, adults), ListKey(adults),
                                          start_date, end_date)
                IN  /\ rep.status = "ok"
                    /\ FGreater(rep.price, PriceFloor)
                    /\ r[SharedKey(adults)] = Round2(SharedFrom(h, rep.price))

(* a record priced for both adult counts from lists that each hold an      *)
(* entry that was dropped and an entry that was kept                       *)
C13_Witness ==
    /\ batch = "processed"
    /\ \E r \in ResultRecords : \A adults \in {2, 1} :
          /\ SharedKey(adults) \in DOMAIN r
          /\ \E k \in 1..Len(SourceOf(r)[ListKey(adults)]) :
                ~EntryValid(SourceOf(r)[ListKey(adults)][k])
          /\ \E k \in 1..Len(SourceOf(r)[ListKey(adults)]) :
                EntryValid(SourceOf(r)[ListKey(adults)][k])

ValidEntries(h, adults) == SelectSeq(h[ListKey(adults)], EntryValid)

ValidOnDate(h, adults) == SelectSeq(ValidEntries(h, adults), EntryOnDate)

PricesOf(days) == [k \in 1..Len(days) |-> [price |-> EntryPrice(days[k])]]

(* the price reported for the adult count is the one derived from the      *)
(* least price of days                                                     *)
ReportsMinOf(r, adults, days) ==
    \E k \in 1..Len(days) :
        /\ \A j \in 1..Len(days) : ~FGreater(EntryPrice(days[k]), EntryPrice(days[j]))
        /\ r[SharedKey(adults)] = Round2(SharedFrom(SourceOf(r), EntryPrice(days[k])))

(* the price reported for the adult count is the one derived from the      *)
(* arithmetic mean of the prices of days                                   *)
ReportsMeanOf(r, adults, days) ==
    /\ days # << >>
    /\ r[SharedKey(adults)] =
          Round2(SharedFrom(SourceOf(r),
                            MeanPrice(PricesOf(days))))

(* C14 as stated: without an end date the representative price is the      *)
(* minimum of the valid entries of the selected date; with an end date,    *)
(* whatever it is, it is the mean of all valid entries.                    *)
C14_MeanWheneverEndDate ==
    batch = "processed" =>
        \A r \in ResultRecords : \A adults \in {2, 1} :
            SharedKey(adults) \in DOMAIN r =>
                IF end_date = NoDate
                THEN ReportsMinOf(r, adults, ValidOnDate(SourceOf(r), adults))
                ELSE ReportsMeanOf(r, adults, ValidEntries(SourceOf(r), adults))

(* C14: without an end date, or with an end date equal to the selected     *)
(* date, the representative price is the minimum of the valid entries      *)
(* whose date is the selected date; with an end date that differs from the *)
(* selected date it is the arithmetic mean of all valid entries, with no   *)
(* date filtering.                                                         *)
C14_MinOrMean ==
    batch = "processed" =>
        \A r \in ResultRecords : \A adults \in {2, 1} :
            SharedKey(adults) \in DOMAIN r =>
                IF end_date = NoDate \/ end_date = start_date
                THEN ReportsMinOf(r, adults, ValidOnDate(SourceOf(r), adults))
                ELSE ReportsMeanOf(r, adults, ValidEntries(SourceOf(r), adults))

(* a range that ends on its first day, priced from a list with two valid   *)
(* entries on that day and a valid entry on another day                    *)
C14_Witness ==
    /\ batch = "processed"
    /\ end_date = start_date
    /\ \E r \in ResultRecords :
          /\ SharedKey(2) \in DOMAIN r
          /\ Len(ValidOnDate(SourceOf(r), 2)) = 2
          /\ Len(ValidEntries(SourceOf(r), 2)) = 3

Representative2(r) ==
    Representative(SourceOf(r), "price_2_adults", start_date, end_date)

(* the record is of category Private and its 2-adult price is 101 *)
Private101(r) ==
    /\ SourceOf(r).type = "Privado"
    /\ Representative2(r).status = "ok"
    /\ Representative2(r).price = Float(101, 1)

(* C15 as stated: for category Private and 2-adult price 101 the shared    *)
(* price is 80.80, the private final price 82.80 and the shared final      *)
(* price 64.18.                                                            *)
C15_SharedFinal6418 ==
    batch = "processed" =>
        \A r \in ResultRecords : Private101(r) =>
            /\ r["Precio Hab Baño Compartido 2 Adultos"] = Float(8080, 100)
            /\ r["Precio Sin Tasa Privado 2 Adultos"] = Float(8280, 100)
            /\ r["Precio Sin Tasa Compartido 2 Adultos"] = Float(6418, 100)

(* C15: for category Private and 2-adult price 101 the shared price is     *)
(* 80.80, the private final price 82.80 and the shared final price 64.22.  *)
C15_SharedFinal6422 ==
    batch = "processed" =>
        \A r \in ResultRecords : Private101(r) =>
            /\ r["Precio Hab Baño Compartido 2 Adultos"] = Float(8080, 100)
            /\ r["Precio Sin Tasa Privado 2 Adultos"] = Float(8280, 100)
            /\ r["Precio Sin Tasa Compartido 2 Adultos"] = Float(6422, 100)

(* a Private record priced for 2 adults at 101 *)
C15_Witness ==
    /\ batch = "processed"
    /\ \E r \in ResultRecords :
          /\ Private101(r)
          /\ r["Precio Hab Baño Privado 2 Adultos"] = Float(101, 1)

PricedTypes == {"Privado", "Compartido", "Híbrido", "Hibrido"}

(* the record has a 2-adult representative price and a priced category *)
Priced2(r) == SourceOf(r).type \in PricedTypes /\ Representative2(r).status = "ok"

PrivateKey2 == "Precio Hab Baño Privado 2 Adultos"

Calculated(key) == key \o " (Calculado)"

(* C16: for 2 adults with representative price P, category Private        *)
(* reports the private price P and the shared price P x 0.8, flagged as    *)
(* calculated; Shared and Hybrid report the shared price P and the private *)
(* price P x 1.2, flagged as calculated; both prices are always reported   *)
(* and only the derived one carries the flag.                              *)
C16_ScrapedAndCalculated ==
    batch = "processed" =>
        \A r \in ResultRecords : Priced2(r) =>
            LET P == Representative2(r).price IN
            /\ PrivateKey2 \in DOMAIN r /\ SharedKey(2) \in DOMAIN r
            /\ IF SourceOf(r).type = "Privado"
               THEN /\ r[PrivateKey2] = Round2(P)
                    /\ r[SharedKey(2)] = Round2(FMul(P, SharedFactor))
                    /\ Calculated(SharedKey(2)) \in DOMAIN r
                    /\ Calculated(PrivateKey2) \notin DOMAIN r
               ELSE /\ r[SharedKey(2)] = Round2(P)
                    /\ r[PrivateKey2] = Round2(FMul(P, PrivateFactor))
                    /\ Calculated(PrivateKey2) \in DOMAIN r
                    /\ Calculated(SharedKey(2)) \notin DOMAIN r

(* a Private record and a Shared record in one run, each with its derived  *)
(* price flagged                                                           *)
C16_Witness ==
    /\ batch = "processed"
    /\ \E r \in ResultRecords :
          /\ Priced2(r) /\ SourceOf(r).type = "Privado"
          /\ r[Calculated(SharedKey(2))] = TRUE
          /\ r[SharedKey(2)] # r[PrivateKey2]
    /\ \E r \in ResultRecords :
          /\ Priced2(r) /\ SourceOf(r).type = "Compartido"
          /\ r[Calculated(PrivateKey2)] = TRUE
          /\ r[SharedKey(2)] # r[PrivateKey2]

(* net before margin, margin and final price of a room price and a tax *)
NetBeforeMargin(room, tax) == FSub(room, tax)

Margin(room, tax) == FMul(InteresRate, NetBeforeMargin(room, tax))

FinalPrice(room, tax) == FSub(NetBeforeMargin(room, tax), Margin(room, tax))

(* C17: for 2 adults, for the private and for the shared room price, in    *)
(* every category: net = room price - 11, margin = 0.08 x net, final =     *)
(* net - margin; the final price and the margin are reported to 2          *)
(* decimals and the tourist tax is reported as 11.                         *)
C17_TwoAdultFinals ==
    batch = "processed" =>
        \A r \in ResultRecords : Priced2(r) =>
            LET private == PrivateFrom(SourceOf(r), Representative2(r).price)
                shared == SharedFrom(SourceOf(r), Representative2(r).price)
            IN  /\ r["Precio Sin Tasa Privado 2 Adultos"] = Round2(FinalPrice(private, TasaOf2))
                /\ r["Interés 8% Privado 2 Adultos"] = Round2(Margin(private, TasaOf2))
                /\ r["Precio Sin Tasa Compartido 2 Adultos"] = Round2(FinalPrice(shared, TasaOf2))
                /\ r["Interés 8% Compartido 2 Adultos"] = Round2(Margin(shared, TasaOf2))
                /\ r["Tasa Turística 2 Adultos"] = TasaOf2

(* records of the three categories, each with its two final prices *)
C17_Witness ==
    /\ batch = "processed"
    /\ \E r \in ResultRecords :
          /\ Priced2(r) /\ SourceOf(r).type = "Híbrido"
          /\ r["Precio Sin Tasa Privado 2 Adultos"] # r["Precio Sin Tasa Compartido 2 Adultos"]
    /\ \E r \in ResultRecords :
          /\ Priced2(r) /\ SourceOf(r).type = "Compartido"
          /\ r["Interés 8% Privado 2 Adultos"] # r["Interés 8% Compartido 2 Adultos"]

Representative1(r) ==
    Representative(SourceOf(r), "price_1_adult", start_date, end_date)

(* the record has a 1-adult representative price and a priced category *)
Priced1(r) == SourceOf(r).type \in PricedTypes /\ Representative1(r).status = "ok"

(* the keys of a result record that are not about 1 adult *)
OtherKeys ==
    {"Nombre Hotel", "Tipo", "URL", "Error",
     "Días con Disponibilidad", "Total Días en Rango",
     PrivateKey2, SharedKey(2), Calculated(PrivateKey2), Calculated(SharedKey(2)),
     "Precio Sin Tasa Privado 2 Adultos", "Interés 8% Privado 2 Adultos",
     "Precio Sin Tasa Compartido 2 Adultos", "Interés 8% Compartido 2 Adultos",
     "Tasa Turística 2 Adultos"}

(* the keys of the shared-room variant for 1 adult, and its day counts *)
Shared1Keys ==
    {SharedKey(1), "Precio Sin Tasa Compartido 1 Adulto",
     "Interés 8% Compartido 1 Adulto", "Tasa Turística 1 Adulto",
     "Días con Disponibilidad 1A", "Total Días en Rango 1A"}

(* C18: for 1 adult only the shared-room variant is produced: a result     *)
(* record has no 1-adult key besides those of the shared room; the shared  *)
(* price is P x 0.8 for Private and P for Shared and Hybrid; net = shared  *)
(* price - 5.5, margin = 0.08 x net, final = net - margin.                 *)
C18_OneAdultSharedOnly ==
    batch = "processed" =>
        \A r \in ResultRecords :
            /\ DOMAIN r \subseteq OtherKeys \cup Shared1Keys
            /\ Priced1(r) =>
                  LET P == Representative1(r).price
                      shared == IF SourceOf(r).type = "Privado"
                                THEN FMul(P, SharedFactor) ELSE P
                  IN  /\ r[SharedKey(1)] = Round2(shared)
                      /\ r["Precio Sin Tasa Compartido 1 Adulto"]
                            = Round2(FinalPrice(shared, Tasa))
                      /\ r["Interés 8% Compartido 1 Adulto"]
                            = Round2(Margin(shared, Tasa))
                      /\ r["Tasa Turística 1 Adulto"] = Tasa

(* a Private and a Shared record priced for 1 adult, the first below its   *)
(* scraped price                                                           *)
C18_Witness ==
    /\ batch = "processed"
    /\ \E r \in ResultRecords :
          /\ Priced1(r) /\ SourceOf(r).type = "Privado"
          /\ FGreater(Representative1(r).price, r[SharedKey(1)])
    /\ \E r \in ResultRecords :
          /\ Priced1(r) /\ SourceOf(r).type = "Compartido"
          /\ r[SharedKey(1)] = Representative1(r).price

(* the reported variants: the key of the room price, of the final price    *)
(* and of the margin, and the tax                                          *)
Variants ==
    {[adults |-> 2, room |-> PrivateKey2, final |-> "Precio Sin Tasa Privado 2 Adultos",
      margin |-> "Interés 8% Privado 2 Adultos", tax |-> TasaOf2],
     [adults |-> 2, room |-> SharedKey(2), final |-> "Precio Sin Tasa Compartido 2 Adultos",
      margin |-> "Interés 8% Compartido 2 Adultos", tax |-> TasaOf2],
     [adults |-> 1, room |-> SharedKey(1), final |-> "Precio Sin Tasa Compartido 1 Adulto",
      margin |-> "Interés 8% Compartido 1 Adulto", tax |-> Tasa]}

(* the unrounded room price of a variant of record r *)
UnroundedRoom(r, v) ==
    LET P == IF v.adults = 2 THEN Representative2(r).price ELSE Representative1(r).price
    IN  IF v.room = PrivateKey2 THEN PrivateFrom(SourceOf(r), P)
        ELSE SharedFrom(SourceOf(r), P)

(* the final price or the margin would be another number had it been       *)
(* computed from the room price as reported                                *)
RoundingShows(r, v) ==
    \/ Round2(FinalPrice(r[v.room], v.tax)) # Round2(FinalPrice(UnroundedRoom(r, v), v.tax))
    \/ Round2(Margin(r[v.room], v.tax)) # Round2(Margin(UnroundedRoom(r, v), v.tax))

(* C19: rounding to 2 decimals is applied to the reported values only:     *)
(* every reported final price and margin is the rounding of the value      *)
(* computed from the unrounded representative price and the unrounded room *)
(* price, also where computing it from the reported room price would give  *)
(* another number.                                                         *)
C19_RoundedOnlyWhenReported ==
    batch = "processed" =>
        \A r \in ResultRecords : \A v \in Variants :
            v.final \in DOMAIN r =>
                /\ r[v.room] = Round2(UnroundedRoom(r, v))
                /\ r[v.final] = Round2(FinalPrice(UnroundedRoom(r, v), v.tax))
                /\ r[v.margin] = Round2(Margin(UnroundedRoom(r, v), v.tax))
                /\ RoundingShows(r, v) =>
                      \/ r[v.final] # Round2(FinalPrice(r[v.room], v.tax))
                      \/ r[v.margin] # Round2(Margin(r[v.room], v.tax))

(* a record whose representative price is a mean with more than 2          *)
(* decimals, and whose shared final price for 2 adults differs from the    *)
(* one the reported shared price would give                                *)
C19_Witness ==
    /\ batch = "processed"
    /\ \E r \in ResultRecords : \E v \in Variants :
          /\ v.final \in DOMAIN r
          /\ v.adults = 2
          /\ Representative2(r).price # Round2(Representative2(r).price)
          /\ r[v.final] # Round2(FinalPrice(r[v.room], v.tax))

(* the list of the adult count has priced entries, but no valid one, or,   *)
(* for a single date, no valid one on the selected date                    *)
NoValidRemain(h, adults) ==
    /\ HasColumn(h[ListKey(adults)], "avgPriceFormatted")
    /\ HasColumn(h[ListKey(adults)], "checkin")
    /\ \/ ValidEntries(h, adults) = << >>
       \/ end_date = NoDate /\ ValidOnDate(h, adults) = << >>

OtherCount(adults) == IF adults = 2 THEN 1 ELSE 2

(* the record is of a priced category and its list of the adult count      *)
(* gives a representative price                                            *)
HasPrice(h, adults) ==
    /\ h.type \in PricedTypes
    /\ Representative(h, ListKey(adults), start_date, end_date).status = "ok"

(* C20: when no valid prices remain for one adult count of a property      *)
(* while the other adult count has a price, the run does not fail and the  *)
(* property's result record is produced, with the derived fields of the    *)
(* other adult count and without those of the emptied one.                 *)
C20_OtherAdultCountKept ==
    batch \in {"processed", "raised"} =>
        \A h \in ScrapedRecords : \A adults \in {2, 1} :
            (NoValidRemain(h, adults) /\ HasPrice(h, OtherCount(adults))) =>
                /\ batch = "processed"
                /\ \E r \in ResultRecords :
                      /\ r["URL"] = h.url
                      /\ SharedKey(OtherCount(adults)) \in DOMAIN r
                      /\ SharedKey(adults) \notin DOMAIN r

(***************************************************************************)
(* Claims about the tasks of one batch.                                    *)
(***************************************************************************)
(* what a task holds: its position, the requests it sent, the record it    *)
(* builds, its tokens and the value it returned                            *)
TaskState(i) == <<pc[i], sent[i], hotel_info[i], tokens[i], ret[i]>>

(* task i took no step: it neither started nor was resumed with a response *)
Idle(i) == pc'[i] = pc[i] /\ received'[i] = received[i]

(* C11: the tasks share no mutable state: a step of one task leaves what   *)
(* every other task holds as it was, and what a task holds and returns is  *)
(* determined by its own property and the responses it received, whatever  *)
(* the other tasks received and however the tasks interleaved: two tasks   *)
(* of the same property that received the same responses are in the same   *)
(* state and give the same result.                                         *)
C11_NoSharedState ==
    /\ [][\A i \in Tasks : Idle(i) => TaskState(i)' = TaskState(i)]_vars
    /\ [](\A i, j \in Tasks :
            (/\ hostels[i] = hostels[j]
             /\ received[i] = received[j]
             /\ pc[i] # "ready" /\ pc[j] # "ready") =>
                /\ TaskState(i) = TaskState(j)
                /\ batch = "returned" => hostels_data[i] = hostels_data[j])

(* two tasks of the same property received the same three responses, the   *)
(* second returned first, and a request of the second had been answered    *)
(* while the first was suspended                                           *)
C11_Witness ==
    /\ batch = "returned"
    /\ Len(hostels) = 2
    /\ hostels[1] = hostels[2]
    /\ received[1] = received[2]
    /\ Len(received[1]) = 3
    /\ finished = <<2, 1>>
    /\ hostels_data[1] = hostels_data[2]

(***************************************************************************)
(* Claims about run_scrape and its session.                                *)
(***************************************************************************)
RunEnded == batch \in {"processed", "raised"}

(* C12: the session run_scrape opens is closed on every way out of it:     *)
(* once run_scrape has returned its lists or an exception has left it, the *)
(* session is closed, whatever the properties' requests came to; it is     *)
(* open until then, no task is suspended at a request once it is closed,   *)
(* and no request is issued on a closed session.                           *)
C12_SessionClosed ==
    /\ [](RunEnded <=> session = "closed")
    /\ [](session = "closed" => \A i \in Tasks : pc[i] = "done")
    /\ [][session = "closed" => sent' = sent]_vars

(* processing raised after the property's three requests were answered,    *)
(* and the session is closed                                               *)
C12_Witness ==
    /\ batch = "raised"
    /\ session = "closed"
    /\ Len(sent[1]) = 3
    /\ results = << >>

(***************************************************************************)
(* Further claims about the normalization of the price lists.              *)
(***************************************************************************)
(* the price lists of the scraped records that have a price column *)
PricedLists ==
    {h[ListKey(adults)] : h \in ScrapedRecords, adults \in {2, 1}}
        \ {l \in {h[ListKey(adults)] : h \in ScrapedRecords, adults \in {2, 1}} :
              ~HasColumn(l, "avgPriceFormatted")}

(* C21: the validity filter is idempotent: applied to the rows it has      *)
(* already filtered it gives the same rows in the same order, and the rows *)
(* of a list from which the invalid entries were taken out are those the   *)
(* filter keeps of the whole list.                                         *)
C21_FilterIdempotent ==
    batch = "processed" =>
        \A l \in PricedLists :
            /\ ValidRows(ValidRows(parse_hotel_prices(l)))
                  = ValidRows(parse_hotel_prices(l))
            /\ ValidRows(parse_hotel_prices(SelectSeq(l, EntryValid)))
                  = ValidRows(parse_hotel_prices(l))
            /\ \A k \in 1..Len(ValidRows(parse_hotel_prices(l))) :
                  FGreater(ValidRows(parse_hotel_prices(l))[k].price, PriceFloor)

(* a processed list of which the filter dropped an entry and kept two *)
C21_Witness ==
    /\ batch = "processed"
    /\ \E l \in PricedLists :
          /\ Len(ValidRows(parse_hotel_prices(l))) = 2
          /\ Len(l) = 3


(***************************************************************************)
(* Claims about the tokens of the landing page and the effective URL.      *)
(***************************************************************************)
(* task i got its landing page with status 200 *)
GotPage(i) ==
    /\ Len(received[i]) >= 1
    /\ received[i][1].kind = "response"
    /\ received[i][1].status_code = 200

PageOf(i) == received[i][1].text

(* the name lines 302-304 derive from the URL of the response *)
UrlDerivedName(i) == SlugToName(UrlMatch(received[i][1].url))

(* the queries of task i were both issued with the tokens tok, and its     *)
(* result is success-shaped                                                *)
NotFatal(i) ==
    /\ Len(sent[i]) >= 2 /\ IsPost2(sent[i][2])
    /\ pc[i] = "done" =>
          /\ Len(sent[i]) = 3 /\ IsPost1(sent[i][3])
          /\ sent[i][3].pagename = sent[i][2].pagename
          /\ sent[i][3].countryCode = sent[i][2].countryCode
          /\ sent[i][3].csrf = sent[i][2].csrf
          /\ IsSuccessShape(ret[i])

MissingCountry(i) ==
    "hotelCountry" \notin DOMAIN PageOf(i) => sent[i][2].countryCode = "unknown"

MissingCsrf(i) ==
    "b_csrf_token" \notin DOMAIN PageOf(i) => sent[i][2].csrf = ""

(* C22 as stated: a token missing from the landing page is never fatal: a  *)
(* missing country code is replaced by "unknown", a missing CSRF token by  *)
(* the empty string, a missing property identifier by the name derived     *)
(* from the URL, and both availability queries are issued and the result   *)
(* is success-shaped.                                                      *)
C22_NameFromUrl ==
    \A i \in Tasks : GotPage(i) =>
        /\ NotFatal(i)
        /\ MissingCountry(i)
        /\ MissingCsrf(i)
        /\ "hotelName" \notin DOMAIN PageOf(i) =>
              /\ UrlMatch(received[i][1].url) # << >>
              /\ sent[i][2].pagename = UrlDerivedName(i)

(* C22 amended: a token missing from the landing page is never fatal: a    *)
(* missing country code is replaced by "unknown", a missing CSRF token by  *)
(* the empty string, a missing property identifier by the name derived     *)
(* from the URL when the URL has the form hotel/<word>/<slug> and by the   *)
(* configured name of the property (or "Unknown Hotel") when it has not;   *)
(* both availability queries are issued and the result is success-shaped.  *)
C22_NameFromUrlOrRecord ==
    \A i \in Tasks : GotPage(i) =>
        /\ NotFatal(i)
        /\ MissingCountry(i)
        /\ MissingCsrf(i)
        /\ "hotelName" \notin DOMAIN PageOf(i) =>
              IF UrlMatch(received[i][1].url) # << >>
              THEN sent[i][2].pagename = UrlDerivedName(i)
              ELSE sent[i][2].pagename = Get(hostels[i], "name", UnknownHotel)

(* a page with no token at all, fetched from a URL that is not a hotel     *)
(* page's, went through both queries and returned a success-shaped result  *)
C22_Witness ==
    /\ pc[1] = "done"
    /\ GotPage(1)
    /\ PageOf(1) = DocBare
    /\ UrlMatch(received[1][1].url) = << >>
    /\ Len(sent[1]) = 3
    /\ sent[1][2].countryCode = "unknown" /\ sent[1][2].csrf = ""
    /\ sent[1][2].pagename = NameOf(1)
    /\ IsSuccessShape(ret[1])


(* the record has a non-empty link and no url, or an empty one *)
LinkOnly(h) ==
    /\ "link" \in DOMAIN h /\ h.link # << >>
    /\ "url" \in DOMAIN h => h.url = << >>

(* C23: link is an alias of url: a property record with a non-empty link   *)
(* and an absent or empty url is fetched from its link and does not yield  *)
(* the Missing URL failure.                                                *)
C23_LinkIsAlias ==
    \A i \in Tasks : (LinkOnly(hostels[i]) /\ pc[i] # "ready") =>
        /\ Len(sent[i]) >= 1
        /\ IsGet(sent[i][1])
        /\ sent[i][1].url = hostels[i].link
        /\ pc[i] = "done" /\ "error" \in DOMAIN ret[i] =>
              ret[i].error # <<"Missing URL">>


(***************************************************************************)
(* Claims about the day counts of a range.                                 *)
(***************************************************************************)
DaysAvailableKey(adults) ==
    IF adults = 2 THEN "Días con Disponibilidad" ELSE "Días con Disponibilidad 1A"

TotalDaysKey(adults) ==
    IF adults = 2 THEN "Total Días en Rango" ELSE "Total Días en Rango 1A"

(* the record reports, for the adult count, the number of valid entries of *)
(* its source and the number of days from the start to the end date        *)
ReportsDayCounts(r, adults) ==
    /\ DaysAvailableKey(adults) \in DOMAIN r
    /\ r[DaysAvailableKey(adults)] = Len(ValidEntries(SourceOf(r), adults))
    /\ TotalDaysKey(adults) \in DOMAIN r
    /\ r[TotalDaysKey(adults)] = (end_date - start_date) + 1

ReportsNoDayCounts(r, adults) ==
    /\ DaysAvailableKey(adults) \notin DOMAIN r
    /\ TotalDaysKey(adults) \notin DOMAIN r

(* C24 as stated: with an end date, for each adult count that has valid    *)
(* prices, the result reports the number of entries left by the validity   *)
(* filter and (end - start).days + 1 as the total days in range; without   *)
(* an end date neither field is reported.                                  *)
C24_DayCountsWheneverEndDate ==
    batch = "processed" =>
        \A r \in ResultRecords : \A adults \in {2, 1} :
            IF end_date # NoDate
            THEN ValidEntries(SourceOf(r), adults) # << >> => ReportsDayCounts(r, adults)
            ELSE ReportsNoDayCounts(r, adults)

(* C24 amended: with an end date that differs from the start date, for     *)
(* each adult count that has valid prices, the result reports the number   *)
(* of entries left by the validity filter and (end - start).days + 1 as    *)
(* the total days in range, and for an adult count without valid prices    *)
(* neither; without an end date, or with an end date equal to the start    *)
(* date, neither field is reported.                                        *)
C24_DayCountsOfRange ==
    batch = "processed" =>
        \A r \in ResultRecords : \A adults \in {2, 1} :
            IF end_date # NoDate /\ end_date # start_date
                /\ ValidEntries(SourceOf(r), adults) # << >>
            THEN ReportsDayCounts(r, adults)
            ELSE ReportsNoDayCounts(r, adults)

(* a range of three days whose 2-adult list has three entries, two of them *)
(* valid: 2 days available out of 3                                        *)
C24_Witness ==
    /\ batch = "processed"
    /\ end_date = start_date + 2
    /\ \E r \in ResultRecords :
          /\ Len(SourceOf(r)[ListKey(2)]) = 3
          /\ DaysAvailableKey(2) \in DOMAIN r
          /\ r[DaysAvailableKey(2)] = 2
          /\ r[TotalDaysKey(2)] = 3


(***************************************************************************)
(* Claims about the two lists process_hostel_data returns.                 *)
(***************************************************************************)
IsErrorRecord(h) == "error" \in DOMAIN h

IsScrapedRecord(h) == "error" \notin DOMAIN h

UrlsOf(records, key) == [k \in 1..Len(records) |-> records[k][key]]

(* C25: process_hostel_data partitions its input: every input record is    *)
(* either in error_hostels or has its row in results, so the two lengths   *)
(* add up to the number of inputs, and each list keeps the input order.    *)
C25_Partition ==
    batch = "processed" =>
        /\ Len(results) + Len(error_hostels) = Len(hostels_data)
        /\ error_hostels = SelectSeq(hostels_data, IsErrorRecord)
        /\ UrlsOf(results, "URL") = UrlsOf(SelectSeq(hostels_data, IsScrapedRecord), "url")


(***************************************************************************)
(* Claims about the day count of the availability queries.                 *)
(***************************************************************************)
(* C27: whatever the start and end dates, an end date equal to or earlier  *)
(* than the start date included, every availability query sent asks for    *)
(* at least 1 and at most 30 days.                                         *)
C27_DayCountFrom1To30 ==
    \A i \in Tasks : \A k \in 1..Len(sent[i]) :
        sent[i][k].method = "POST" =>
            /\ sent[i][k].amountOfDays >= 1
            /\ sent[i][k].amountOfDays <= 30


(* the availability query task i sent for the adult count *)
QueryFor(i, adults) == IF adults = 2 THEN sent[i][2] ELSE sent[i][3]

(* C28: the total days in range a result reports for an adult count equals *)
(* the amountOfDays of the availability query sent for that property and   *)
(* adult count, for every range length, ranges of more than 30 days        *)
(* included.                                                               *)
C28_TotalDaysIsDaysRequested ==
    batch = "processed" =>
        \A i \in Tasks : \A r \in ResultRecords : \A adults \in {2, 1} :
            (/\ Len(sent[i]) = 3
             /\ r["URL"] = sent[i][1].url
             /\ TotalDaysKey(adults) \in DOMAIN r) =>
                r[TotalDaysKey(adults)] = QueryFor(i, adults).amountOfDays


(***************************************************************************)
(* Claims about the records of results.                                    *)
(***************************************************************************)
PrecioKeys(r) == {key \in DOMAIN r : StartsWithPrecio(key)}

NoPricingData == "No pricing data available for this hostel"

HasMarker(r) == "Error" \in DOMAIN r /\ r["Error"] = NoPricingData

(* C29: every record of results carries a derived price field (a key that  *)
(* starts with 'Precio') or the 'Error' marker 'No pricing data available  *)
(* for this hostel', never both and never neither, whatever the type of    *)
(* the property and also when both price lists are empty.                  *)
C29_PriceOrMarker ==
    batch = "processed" =>
        \A r \in ResultRecords :
            /\ PrecioKeys(r) # {} \/ HasMarker(r)
            /\ ~(PrecioKeys(r) # {} /\ "Error" \in DOMAIN r)
            /\ "Error" \in DOMAIN r => HasMarker(r)

(* results holds a record of an unknown type that got day counts but no    *)
(* price and so the marker, and the run also produced a priced record      *)
C29_Witness ==
    /\ batch = "processed"
    /\ \E r \in ResultRecords :
          /\ r["Tipo"] = UnknownType
          /\ TotalDaysKey(2) \in DOMAIN r
          /\ HasMarker(r)
    /\ \E r \in ResultRecords : PrecioKeys(r) # {} /\ "Error" \notin DOMAIN r


(***************************************************************************)
(* Claims about the hostel-list editor.                                    *)
(***************************************************************************)
IsEditing == editing_hostel # None

LastClicked == IF clicked = << >> THEN "" ELSE clicked[Len(clicked)]

(* C26: whenever a hostel is open for editing, the editing index is a      *)
(* position of the editable list and the hostel at that position is the    *)
(* one that was opened, so that Save Changes replaces that hostel and      *)
(* never indexes out of range.                                             *)
C26_EditingIndexDesignatesOpened ==
    /\ IsEditing =>
          /\ editing_index >= 0 /\ editing_index < Len(Editable)
          /\ Editable[editing_index + 1] = editing_hostel
    /\ LastClicked # "Save: IndexError"

(* C30: after any clicks, Reset to Original Predefined List leaves the     *)
(* editable list equal to the 16 predefined hostels of lines 39-120, and   *)
(* no click ever changes DEFAULT_HOSTELS or an entry of it.                *)
C30_ResetRestoresDefaults ==
    /\ list_objects["DEFAULT_HOSTELS"] = DEFAULT_HOSTELS
    /\ Len(list_objects["DEFAULT_HOSTELS"]) = 16
    /\ LastClicked = "Reset" => Editable = DEFAULT_HOSTELS

(* the first hostel was edited and saved under another name, the new first *)
(* row deleted, and the list then reset                                    *)
C30_Witness ==
    /\ clicked = <<"Edit", "Save", "Delete", "Reset">>
    /\ Editable = DEFAULT_HOSTELS
    /\ Len(Editable) = 16
    /\ Editable[1].name = Chars("Hostal Ramos")

====
